---- MODULE Spec2Model ----
(***************************************************************************)
(* Credential-index allocation (AnonCredsIssuer.create_credential) and     *)
(* batch revocation (AnonCredsIssuer.revoke_credentials) against one       *)
(* revocation registry kept in the Askar store, run by concurrent callers. *)
(*                                                                         *)
(* A step is a store operation together with the local computation that    *)
(* follows it.  Fetches of entries that never change (the registry         *)
(* definition and its private key) are folded into the neighbouring step.  *)
(* A for_update fetch takes the entry's lock until the transaction commits *)
(* or is left.  The entries of the registry are never removed, so the      *)
(* "not found" branches are not taken; store failures (AskarError) are not *)
(* part of the model.  The status list is given by the set of indices it   *)
(* marks revoked.                                                          *)
(*                                                                         *)
(* Beside that registry the module follows the IssuerRevRegRecords through *)
(* their states (AnonCredsRevocation and the registry-definition and       *)
(* status-list calls of AnonCredsIssuer) and the registration of schemas   *)
(* with a registrar that answers finished, wait or failed.  The records    *)
(* are told apart by their place in rev_reg_records, the order in which    *)
(* they were saved.                                                        *)
(*                                                                         *)
(* The entries of a registry that is being registered are kept in the      *)
(* wallet, where create_credential meets its "not found" branches, and so  *)
(* are the three entries of a credential definition, which finish_cred_def *)
(* moves from the job id to the credential definition id.                  *)
(***************************************************************************)
EXTENDS Integers, Sequences, FiniteSets, TLC

\* ---------------------------------------------------------------- bounds
NumProcs == 2
MaxCredNum == 3
MaxBatch == 1

\* ------------------------------------------------------ program constants
max_attempt == 5

Procs == 1..NumProcs

\* max_cred_num of the stored registry definition (rev_reg_def.max_cred_num)
max_cred_num == MaxCredNum

\* identifiers a caller may pass as cred_revoc_ids (after int(rev_id))
ReqIds == 0..(MaxCredNum + 1)
Requests == {S \in SUBSET ReqIds : Cardinality(S) <= MaxBatch}

\* Optional[RevocationStatusList]: None, or a list given by its revoked set
None == <<>>
Some(x) == <<x>>

\* schemas the model lets callers register
MaxSchemas == 2

\* calls of init_issuer_registry the model follows
MaxInitCalls == 3

\* what the registrar is asked to register: schemas and the definitions of
\* the registries of the IssuerRevRegRecords
Objects ==
    {<<"schema", k>> : k \in 1..MaxSchemas}
        \cup {<<"rev_reg", i>> : i \in 1..MaxInitCalls}

VARIABLES
    rev_reg_info,     \* store entry CATEGORY_REV_REG_INFO: curr_id, used_ids
    rev_list_store,   \* store entry CATEGORY_REV_LIST: indices marked revoked
    info_lock,        \* callers holding the for_update lock on the info entry
    list_lock,        \* callers holding the for_update lock on the list entry
    registry_state,   \* state of the registry's IssuerRevRegRecord
    new_registries,   \* records created by init_issuer_registry
    init_events,      \* events sent by notify_revocation_reg_init_event
    rev_reg_records,  \* the stored IssuerRevRegRecords, oldest first
    wallet,           \* store entries of the registration categories
    txn_open,         \* callers with an open store transaction
    registrar,        \* the remote registrar: registration state per object
    hfLog,            \* finished handle_full_registry calls, in order
    proc,             \* each caller's position and the locals of its call
    allocLog,         \* indices of committed allocations, in commit order
    issued,           \* indices whose credential was created
    skipped           \* indices whose credential creation failed

store == <<rev_reg_info, rev_list_store, info_lock, list_lock>>
lifecycle == <<rev_reg_records, wallet, txn_open, registrar, hfLog>>
records == <<registry_state, new_registries, init_events, lifecycle>>
history == <<allocLog, issued, skipped>>
vars == <<store, records, proc, history>>

FreshInfo == [curr_id |-> 0, used_ids |-> {}]

\* the arguments of init_issuer_registry the model follows: issuer_id,
\* cred_def_id, max_cred_num (Optional[int]), revoc_def_type, notify, and
\* what the call meets: whether get_credential_definition answers, whether
\* the credential definition has a revocation part, and what the endorser
\* lookup finds
NoArgs ==
    [issuer_id |-> "issuer", cred_def_id |-> "cred_def",
     max_cred_num |-> None, revoc_def_type |-> None,
     resolver |-> "ok", revocation |-> TRUE, notify |-> TRUE,
     endorser |-> "not needed"]

\* a caller outside any call; the fields are the locals of the two methods
\* (committed and conflicts record what the call did)
Idle ==
    [pc |-> "idle", result |-> "none",
     rev_reg_index |-> 0,
     cred_revoc_ids |-> {}, attempt |-> 0,
     rev_list_entry |-> {}, rev_info |-> FreshInfo,
     rev_crids |-> {}, failed_crids |-> {}, logged |-> {},
     prev_list |-> None, updated_list |-> None,
     committed |-> FALSE, conflicts |-> 0,
     args |-> NoArgs,
     hf |-> 0, created |-> 0,
     rec_idx |-> 0, rec_copy |-> None, reg |-> None,
     obj |-> 0, value |-> 0, entry |-> None]

Init ==
    /\ rev_reg_info = FreshInfo
    /\ rev_list_store = {}
    /\ info_lock = {}
    /\ list_lock = {}
    /\ registry_state = "active"
    /\ new_registries = 0
    /\ init_events = 0
    /\ rev_reg_records = <<>>
    /\ wallet = {}
    /\ txn_open = {}
    /\ registrar = [o \in Objects |-> "none"]
    /\ hfLog = <<>>
    /\ proc = [p \in Procs |-> Idle]
    /\ allocLog = <<>>
    /\ issued = {}
    /\ skipped = {}

\* ------------------------------------------------------- create_credential

\* the call enters the revocation branch: the transaction is opened and the
\* status list is fetched without a lock (its content only feeds
\* Credential.create)
CreateCredential(p) ==
    /\ proc[p].pc = "idle"
    /\ proc' = [proc EXCEPT ![p] = [Idle EXCEPT !.pc = "cc_fetch_info"]]
    /\ UNCHANGED <<store, records, history>>

\* mutant: the info entry is fetched without for_update
CC_FetchInfo_NoLock(p) ==
    /\ proc[p].pc = "cc_fetch_info"
    /\ proc' = [proc EXCEPT ![p].rev_info = rev_reg_info, ![p].pc = "cc_txn"]
    /\ UNCHANGED <<store, records, history>>

\* txn.handle.fetch(CATEGORY_REV_REG_INFO, revoc_reg_id, for_update=True)
CC_FetchInfo(p) ==
    /\ proc[p].pc = "cc_fetch_info"
    /\ info_lock = {}
    /\ info_lock' = {p}
    /\ proc' = [proc EXCEPT ![p].rev_info = rev_reg_info, ![p].pc = "cc_txn"]
    /\ UNCHANGED <<rev_reg_info, rev_list_store, list_lock, records, history>>

\* mutant: the capacity check is off by one
RegistryIsFull_OffByOne(index) == index > max_cred_num + 1

\* rev_reg_index > rev_reg_def.max_cred_num
RegistryIsFull(index) == index > max_cred_num

\* mutant: a full registry is marked full by the allocation itself
CC_Allocate_MarksFull(p) ==
    /\ proc[p].pc = "cc_txn"
    /\ LET index == proc[p].rev_info.curr_id + 1 IN
       IF RegistryIsFull(index)
       THEN /\ proc' = [proc EXCEPT ![p].result = "full", ![p].pc = "done",
                                    ![p].rev_info = FreshInfo]
            /\ registry_state' = "full"
            /\ UNCHANGED <<rev_reg_info, allocLog>>
       ELSE /\ rev_reg_info' = [proc[p].rev_info EXCEPT !.curr_id = index]
            /\ allocLog' = Append(allocLog, index)
            /\ proc' = [proc EXCEPT ![p].rev_reg_index = index,
                                    ![p].pc = "cc_create",
                                    ![p].rev_info = FreshInfo]
            /\ UNCHANGED registry_state
    /\ info_lock' = {}
    /\ UNCHANGED <<rev_list_store, list_lock, new_registries, init_events,
                   lifecycle, issued, skipped>>

\* mutant: the transaction stays open while the credential is created
CC_Allocate_KeepsTransaction(p) ==
    /\ proc[p].pc = "cc_txn"
    /\ LET index == proc[p].rev_info.curr_id + 1 IN
       IF RegistryIsFull(index)
       THEN /\ proc' = [proc EXCEPT ![p].result = "full", ![p].pc = "done",
                                    ![p].rev_info = FreshInfo]
            /\ info_lock' = {}
            /\ UNCHANGED <<rev_reg_info, allocLog>>
       ELSE /\ rev_reg_info' = [proc[p].rev_info EXCEPT !.curr_id = index]
            /\ allocLog' = Append(allocLog, index)
            /\ info_lock' = info_lock
            /\ proc' = [proc EXCEPT ![p].rev_reg_index = index,
                                    ![p].pc = "cc_create",
                                    ![p].rev_info = FreshInfo]
    /\ UNCHANGED <<rev_list_store, list_lock, records, issued, skipped>>

\* the index is computed and checked; the info entry is replaced and the
\* transaction committed, or the registry-full error leaves the transaction
CC_Allocate(p) ==
    /\ proc[p].pc = "cc_txn"
    /\ LET index == proc[p].rev_info.curr_id + 1 IN
       IF RegistryIsFull(index)
       THEN /\ proc' = [proc EXCEPT ![p].result = "full", ![p].pc = "done",
                                    ![p].rev_info = FreshInfo]
            /\ UNCHANGED <<rev_reg_info, allocLog>>
       ELSE /\ rev_reg_info' = [proc[p].rev_info EXCEPT !.curr_id = index]
            /\ allocLog' = Append(allocLog, index)
            /\ proc' = [proc EXCEPT ![p].rev_reg_index = index,
                                    ![p].pc = "cc_create",
                                    ![p].rev_info = FreshInfo]
    /\ info_lock' = {}
    /\ UNCHANGED <<rev_list_store, list_lock, records, issued, skipped>>

\* Credential.create succeeds: the credential and its index are returned
CC_CreateOk(p) ==
    /\ proc[p].pc = "cc_create"
    /\ issued' = issued \cup {proc[p].rev_reg_index}
    /\ proc' = [proc EXCEPT ![p].result = "credential", ![p].pc = "done"]
    /\ UNCHANGED <<store, records, allocLog, skipped>>

\* mutant: a failed Credential.create gives the index back
CC_CreateFail_Rollback(p) ==
    /\ proc[p].pc = "cc_create"
    /\ skipped' = skipped \cup {proc[p].rev_reg_index}
    /\ rev_reg_info' = [rev_reg_info EXCEPT !.curr_id = proc[p].rev_reg_index - 1]
    /\ proc' = [proc EXCEPT ![p].result = "create_error", ![p].pc = "done"]
    /\ UNCHANGED <<rev_list_store, info_lock, list_lock, records, allocLog,
                   issued>>

\* Credential.create raises AnoncredsError after the index was committed
CC_CreateFail(p) ==
    /\ proc[p].pc = "cc_create"
    /\ skipped' = skipped \cup {proc[p].rev_reg_index}
    /\ proc' = [proc EXCEPT ![p].result = "create_error", ![p].pc = "done"]
    /\ UNCHANGED <<store, records, allocLog, issued>>

\* ------------------------------------------------------ revoke_credentials

RevokeCredentials(p) ==
    /\ proc[p].pc = "idle"
    /\ \E ids \in Requests :
          proc' = [proc EXCEPT ![p] =
                      [Idle EXCEPT !.pc = "rv_loop", !.cred_revoc_ids = ids]]
    /\ UNCHANGED <<store, records, history>>

\* mutant: the number of attempts is not bounded
AttemptsExhausted_Never(n) == FALSE

\* attempt >= max_attempt
AttemptsExhausted(n) == n >= max_attempt

\* head of the while loop: the attempt is counted and the bound checked,
\* then the registry definition and the status list are fetched
\* (session.handle.fetch(CATEGORY_REV_REG_DEF / CATEGORY_REV_LIST, ...))
RV_Attempt(p) ==
    /\ proc[p].pc = "rv_loop"
    /\ IF AttemptsExhausted(proc[p].attempt + 1)
       THEN proc' = [proc EXCEPT ![p].attempt = @ + 1,
                                 ![p].result = "conflict_error",
                                 ![p].pc = "done"]
       ELSE proc' = [proc EXCEPT ![p].attempt = @ + 1,
                                 ![p].rev_list_entry = rev_list_store,
                                 ![p].pc = "rv_fetch_info"]
    /\ UNCHANGED <<store, records, history>>

\* mutant: index 0 passes the range check
OutOfRange_ZeroAllowed(id) == id < 0 \/ id > max_cred_num

\* the three failing classes of the loop over cred_revoc_ids
OutOfRange(id) == id < 1 \/ id > max_cred_num
NotYetIssued(id, info) == ~OutOfRange(id) /\ id > info.curr_id
AlreadyRevoked(id, info) ==
    ~OutOfRange(id) /\ ~(id > info.curr_id) /\ id \in info.used_ids
\* mutant: the test against used_ids is left out
Eligible_IgnoresUsedIds(id, info) ==
    ~OutOfRange(id) /\ ~(id > info.curr_id)

\* mutant: the comparison with curr_id is left out
Eligible_IgnoresCurrId(id, info) ==
    ~OutOfRange(id) /\ id \notin info.used_ids

Eligible(id, info) ==
    ~OutOfRange(id) /\ ~(id > info.curr_id) /\ id \notin info.used_ids

\* rev_crids as the loop over cred_revoc_ids leaves it
EligibleIds(ids, info) == {id \in ids : Eligible(id, info)}

\* the message LOGGER.error / LOGGER.warn writes for a skipped id
SkipReason(id, info) ==
    IF OutOfRange(id) THEN "not in range"
    ELSE IF NotYetIssued(id, info) THEN "not yet issued"
    ELSE "already revoked"

\* the log lines of one pass over cred_revoc_ids
Skipped(ids, info) == {<<id, SkipReason(id, info)>> : id \in ids}

\* RevocationStatusList.update(timestamp, None, revoked, rev_reg_def)
StatusListUpdate(list, revoked) == list \cup revoked

\* mutant: an id that is not in range makes the call raise
RV_FetchInfo_RaiseOnInvalid(p) ==
    /\ proc[p].pc = "rv_fetch_info"
    /\ LET info == rev_reg_info
           crids == EligibleIds(proc[p].cred_revoc_ids, info)
       IN IF \E id \in proc[p].cred_revoc_ids : OutOfRange(id)
          THEN proc' = [proc EXCEPT
                          ![p].rev_list_entry = {},
                          ![p].result = "issuer_error",
                          ![p].pc = "done"]
          ELSE IF crids = {}
          THEN proc' = [proc EXCEPT
                          ![p].rev_crids = crids,
                          ![p].failed_crids = proc[p].cred_revoc_ids \ crids,
                          ![p].rev_list_entry = {},
                          ![p].result = "revoke_result",
                          ![p].pc = "done"]
          ELSE proc' = [proc EXCEPT
                          ![p].rev_crids = crids,
                          ![p].failed_crids = proc[p].cred_revoc_ids \ crids,
                          ![p].rev_info = info,
                          ![p].prev_list = Some(proc[p].rev_list_entry),
                          ![p].updated_list =
                              Some(StatusListUpdate(proc[p].rev_list_entry,
                                                    crids)),
                          ![p].rev_list_entry = {},
                          ![p].pc = "rv_txn_list"]
    /\ UNCHANGED <<store, records, history>>

\* mutant: one skipped id makes the call revoke nothing
RV_FetchInfo_AllOrNothing(p) ==
    /\ proc[p].pc = "rv_fetch_info"
    /\ LET info == rev_reg_info
           crids == EligibleIds(proc[p].cred_revoc_ids, info)
       IN IF crids # proc[p].cred_revoc_ids
          THEN proc' = [proc EXCEPT
                          ![p].failed_crids = proc[p].cred_revoc_ids \ crids,
                          ![p].rev_list_entry = {},
                          ![p].result = "revoke_result",
                          ![p].pc = "done"]
          ELSE proc' = [proc EXCEPT
                          ![p].rev_crids = crids,
                          ![p].rev_info = info,
                          ![p].prev_list = Some(proc[p].rev_list_entry),
                          ![p].updated_list =
                              Some(StatusListUpdate(proc[p].rev_list_entry,
                                                    crids)),
                          ![p].rev_list_entry = {},
                          ![p].pc = "rv_txn_list"]
    /\ UNCHANGED <<store, records, history>>

\* session.handle.fetch(CATEGORY_REV_REG_INFO, revoc_reg_id), then the
\* requested ids are classified; with nothing to revoke the loop is left,
\* otherwise prev_list is loaded and updated_list computed in the executor
RV_FetchInfo(p) ==
    /\ proc[p].pc = "rv_fetch_info"
    /\ LET info == rev_reg_info
           crids == EligibleIds(proc[p].cred_revoc_ids, info)
       IN IF crids = {}
          THEN proc' = [proc EXCEPT
                          ![p].rev_crids = crids,
                          ![p].failed_crids = proc[p].cred_revoc_ids \ crids,
                          ![p].logged =
                              Skipped(proc[p].cred_revoc_ids \ crids, info),
                          ![p].rev_list_entry = {},
                          ![p].result = "revoke_result",
                          ![p].pc = "done"]
          ELSE proc' = [proc EXCEPT
                          ![p].rev_crids = crids,
                          ![p].failed_crids = proc[p].cred_revoc_ids \ crids,
                          ![p].logged =
                              Skipped(proc[p].cred_revoc_ids \ crids, info),
                          ![p].rev_info = info,
                          ![p].prev_list = Some(proc[p].rev_list_entry),
                          ![p].updated_list =
                              Some(StatusListUpdate(proc[p].rev_list_entry,
                                                    crids)),
                          ![p].rev_list_entry = {},
                          ![p].pc = "rv_txn_list"]
    /\ UNCHANGED <<store, records, history>>

\* txn.handle.fetch(CATEGORY_REV_LIST, revoc_reg_id, for_update=True)
RV_TxnFetchList(p) ==
    /\ proc[p].pc = "rv_txn_list"
    /\ list_lock = {}
    /\ list_lock' = {p}
    /\ proc' = [proc EXCEPT ![p].pc = "rv_txn_info"]
    /\ UNCHANGED <<rev_reg_info, rev_list_store, info_lock, records, history>>

\* mutant: only the counter is compared
Conflict_CurrIdOnly(info_upd, info) == info_upd.curr_id # info.curr_id

\* rev_info_upd != rev_info
Conflict(info_upd, info) == info_upd # info

\* mutant: on a conflict the fetched index state is merged in and the
\* stale status list is written at once instead of restarting the attempt
RV_Commit_Merge(p) ==
    /\ proc[p].pc = "rv_txn_info"
    /\ info_lock = {}
    /\ rev_list_store' = proc[p].updated_list[1]
    /\ rev_reg_info' =
          [rev_reg_info EXCEPT !.used_ids = @ \cup proc[p].rev_crids]
    /\ proc' = [proc EXCEPT ![p].result = "revoke_result",
                            ![p].committed = TRUE,
                            ![p].rev_info = FreshInfo,
                            ![p].pc = "done"]
    /\ list_lock' = {}
    /\ UNCHANGED <<info_lock, records, history>>

\* mutant: the status list is replaced before the index state is compared,
\* so an attempt that ends in a conflict has already written
RV_Commit_WriteThenCheck(p) ==
    /\ proc[p].pc = "rv_txn_info"
    /\ info_lock = {}
    /\ rev_list_store' = proc[p].updated_list[1]
    /\ LET rev_info_upd == rev_reg_info IN
       IF Conflict(rev_info_upd, proc[p].rev_info)
       THEN /\ proc' = [proc EXCEPT ![p].pc = "rv_loop",
                                    ![p].conflicts = @ + 1,
                                    ![p].committed = TRUE,
                                    ![p].rev_info = FreshInfo,
                                    ![p].rev_crids = {},
                                    ![p].failed_crids = {},
                                    ![p].logged = {}]
            /\ UNCHANGED rev_reg_info
       ELSE /\ rev_reg_info' =
                  [rev_info_upd EXCEPT
                      !.used_ids = proc[p].rev_info.used_ids
                                      \cup proc[p].rev_crids]
            /\ proc' = [proc EXCEPT ![p].result = "revoke_result",
                                    ![p].committed = TRUE,
                                    ![p].rev_info = FreshInfo,
                                    ![p].pc = "done"]
    /\ list_lock' = {}
    /\ UNCHANGED <<info_lock, records, history>>

\* mutant: the index state read at the start of the attempt is written
\* back without comparing it with the one fetched in the transaction
RV_Commit_WritesReadInfo(p) ==
    /\ proc[p].pc = "rv_txn_info"
    /\ info_lock = {}
    /\ rev_list_store' = proc[p].updated_list[1]
    /\ rev_reg_info' =
          [proc[p].rev_info EXCEPT
              !.used_ids = proc[p].rev_info.used_ids \cup proc[p].rev_crids]
    /\ proc' = [proc EXCEPT ![p].result = "revoke_result",
                            ![p].committed = TRUE,
                            ![p].rev_info = FreshInfo,
                            ![p].pc = "done"]
    /\ list_lock' = {}
    /\ UNCHANGED <<info_lock, records, history>>

\* txn.handle.fetch(CATEGORY_REV_REG_INFO, revoc_reg_id, for_update=True);
\* on a conflict the transaction is left without a write and the loop
\* continues, otherwise both entries are replaced and committed
RV_Commit(p) ==
    /\ proc[p].pc = "rv_txn_info"
    /\ info_lock = {}
    /\ LET rev_info_upd == rev_reg_info IN
       IF Conflict(rev_info_upd, proc[p].rev_info)
       THEN /\ proc' = [proc EXCEPT ![p].pc = "rv_loop",
                                    ![p].conflicts = @ + 1,
                                    ![p].rev_info = FreshInfo,
                                    ![p].rev_crids = {},
                                    ![p].failed_crids = {},
                                    ![p].logged = {}]
            /\ UNCHANGED <<rev_reg_info, rev_list_store>>
       ELSE /\ rev_list_store' = proc[p].updated_list[1]
            /\ rev_reg_info' =
                  [rev_info_upd EXCEPT
                      !.used_ids = proc[p].rev_info.used_ids
                                      \cup proc[p].rev_crids]
            /\ proc' = [proc EXCEPT ![p].result = "revoke_result",
                                    ![p].committed = TRUE,
                                    ![p].rev_info = FreshInfo,
                                    ![p].pc = "done"]
    /\ list_lock' = {}
    /\ UNCHANGED <<info_lock, records, history>>

\* ---------------------------------------------------- handle_full_registry

\* the caller of create_credential reacts to the registry-full error by
\* calling handle_full_registry for the registry
HandleFullRegistry(p) ==
    /\ proc[p].pc = "done"
    /\ proc[p].result = "full"
    /\ proc' = [proc EXCEPT ![p] = [Idle EXCEPT !.pc = "hf_txn"]]
    /\ UNCHANGED <<store, records, history>>

\* the record is fetched for update; an already full record ends the call,
\* otherwise set_state(STATE_FULL) is committed
HF_SetState(p) ==
    /\ proc[p].pc = "hf_txn"
    /\ IF registry_state = "full"
       THEN /\ proc' = [proc EXCEPT ![p].result = "returned", ![p].pc = "done"]
            /\ UNCHANGED registry_state
       ELSE /\ registry_state' = "full"
            /\ proc' = [proc EXCEPT ![p].pc = "hf_init"]
    /\ UNCHANGED <<store, new_registries, init_events, lifecycle, history>>

\* init_issuer_registry saves the record of the next registry and sends
\* the init event (the arguments are those of a registry that exists)
HF_InitIssuerRegistry(p) ==
    /\ proc[p].pc = "hf_init"
    /\ new_registries' = new_registries + 1
    /\ init_events' = init_events + 1
    /\ proc' = [proc EXCEPT ![p].result = "returned", ![p].pc = "done"]
    /\ UNCHANGED <<store, registry_state, lifecycle, history>>

\* ---------------------------------------------------- init_issuer_registry

\* RevocationRegistry.MIN_SIZE, RevocationRegistry.MAX_SIZE
MIN_SIZE == 4
MAX_SIZE == 32768

SizeArgs ==
    {None} \cup {Some(n) : n \in {0 - 1, 0, 1, MIN_SIZE - 1, MIN_SIZE,
                                  MAX_SIZE, MAX_SIZE + 1}}

\* calls for a credential definition the resolver finds
InitArgs ==
    [issuer_id : {"issuer"}, cred_def_id : {"cred_def"},
     max_cred_num : SizeArgs, revoc_def_type : {None},
     resolver : {"ok"}, revocation : BOOLEAN, notify : BOOLEAN,
     endorser : {"not needed", "found", "not found"}]

\* IssuerRevRegRecord(new_with_id=True, ...): a record in state init
NewRecord(a) ==
    [state |-> "init", revoc_reg_id |-> None,
     issuer_id |-> a.issuer_id, cred_def_id |-> a.cred_def_id,
     max_cred_num |-> a.max_cred_num, revoc_def_type |-> a.revoc_def_type]

\* truth value of an Optional[int] in a condition: None and 0 are false
Truthy(opt) == opt # None /\ opt[1] # 0

\* max_cred_num and not (MIN_SIZE <= max_cred_num <= MAX_SIZE)
BadSize(opt) ==
    Truthy(opt) /\ ~(MIN_SIZE <= opt[1] /\ opt[1] <= MAX_SIZE)

InitIssuerRegistry(p) ==
    /\ proc[p].pc = "idle"
    /\ new_registries + Cardinality({q \in Procs : proc[q].pc = "ir_save"})
          < MaxInitCalls
    /\ \E a \in InitArgs :
          proc' = [proc EXCEPT ![p] = [Idle EXCEPT !.pc = "ir_check", !.args = a]]
    /\ UNCHANGED <<store, records, history>>

\* mutant: the record is saved before the credential definition is looked at
IR_Check_SaveFirst(p) ==
    /\ proc[p].pc = "ir_check"
    /\ new_registries' = new_registries + 1
    /\ rev_reg_records' = Append(rev_reg_records, NewRecord(proc[p].args))
    /\ IF proc[p].args.resolver = "error"
       THEN proc' = [proc EXCEPT ![p].result = "resolver_error",
                                 ![p].pc = "done"]
       ELSE IF ~proc[p].args.revocation
       THEN proc' = [proc EXCEPT ![p].result = "not_supported",
                                 ![p].pc = "done"]
       ELSE IF BadSize(proc[p].args.max_cred_num)
       THEN proc' = [proc EXCEPT ![p].result = "bad_size", ![p].pc = "done"]
       ELSE proc' = [proc EXCEPT ![p].pc = "ir_save"]
    /\ UNCHANGED <<store, registry_state, init_events, wallet, txn_open,
                   registrar, hfLog, history>>

\* get_credential_definition (an error of the resolver leaves the call),
\* then the two checks: the revocation part of the credential definition
\* and the size
IR_Check(p) ==
    /\ proc[p].pc = "ir_check"
    /\ IF proc[p].args.resolver = "error"
       THEN proc' = [proc EXCEPT ![p].result = "resolver_error",
                                 ![p].pc = "done"]
       ELSE IF ~proc[p].args.revocation
       THEN proc' = [proc EXCEPT ![p].result = "not_supported",
                                 ![p].pc = "done"]
       ELSE IF BadSize(proc[p].args.max_cred_num)
       THEN proc' = [proc EXCEPT ![p].result = "bad_size", ![p].pc = "done"]
       ELSE proc' = [proc EXCEPT ![p].pc = "ir_save"]
    /\ UNCHANGED <<store, records, history>>

\* record.save(session, reason="Init revocation registry"), then the
\* endorser lookup, which raises RevocationError when it finds none
IR_Save(p) ==
    /\ proc[p].pc = "ir_save"
    /\ new_registries' = new_registries + 1
    /\ rev_reg_records' = Append(rev_reg_records, NewRecord(proc[p].args))
    /\ IF proc[p].args.endorser = "not found"
       THEN proc' = [proc EXCEPT ![p].created = Len(rev_reg_records) + 1,
                                 ![p].result = "endorser_error",
                                 ![p].pc = "done"]
       ELSE IF proc[p].args.notify
       THEN proc' = [proc EXCEPT ![p].created = Len(rev_reg_records) + 1,
                                 ![p].pc = "ir_notify"]
       ELSE proc' = [proc EXCEPT ![p].created = Len(rev_reg_records) + 1,
                                 ![p].result = "record", ![p].pc = "done"]
    /\ UNCHANGED <<store, registry_state, init_events, wallet, txn_open,
                   registrar, hfLog, history>>

\* notify_revocation_reg_init_event(...), then return record
IR_Notify(p) ==
    /\ proc[p].pc = "ir_notify"
    /\ init_events' = init_events + 1
    /\ proc' = [proc EXCEPT ![p].result = "record", ![p].pc = "done"]
    /\ UNCHANGED <<store, registry_state, new_registries, lifecycle, history>>

\* ------------------------------------------------------------ RevokeResult

Digit(d) == <<"0", "1", "2", "3", "4", "5", "6", "7", "8", "9">>[d + 1]

RECURSIVE Digits(_)
Digits(n) == IF n < 10 THEN Digit(n) ELSE Digits(n \div 10) \o Digit(n % 10)

\* str(rev_id)
str(n) == IF n < 0 THEN "-" \o Digits(0 - n) ELSE Digits(n)

\* sorted(failed_crids)
RECURSIVE sorted(_)
sorted(S) ==
    IF S = {} THEN <<>>
    ELSE LET least == CHOOSE x \in S : \A y \in S : x <= y
         IN <<least>> \o sorted(S \ {least})

\* [str(rev_id) for rev_id in sorted(failed_crids)]
FailedList(failed) == [k \in 1..Cardinality(failed) |-> str(sorted(failed)[k])]

\* RevokeResult(prev=prev_list, curr=updated_list, failed=[...]) as the
\* call that stands at its return statement builds it
RevokeResult(p) ==
    [prev |-> proc[p].prev_list,
     curr |-> proc[p].updated_list,
     failed |-> FailedList(proc[p].failed_crids)]

\* the call of p has left revoke_credentials through its return statement
Returned(p) == proc[p].pc = "done" /\ proc[p].result = "revoke_result"

\* -------------------------------------------- registry records, by record

\* calls of handle_full_registry the model follows
MaxFullCalls == 2

CredDefIds == {"cred_def", "cred_def_2"}

\* the registries of one credential definition are of one size
LifecycleArgs ==
    {[issuer_id |-> "issuer", cred_def_id |-> cd,
      max_cred_num |-> IF cd = "cred_def" THEN Some(MIN_SIZE)
                                          ELSE Some(MIN_SIZE + 1),
      revoc_def_type |-> Some("CL_ACCUM"),
      resolver |-> "ok", revocation |-> TRUE, notify |-> FALSE,
      endorser |-> "not needed"] : cd \in CredDefIds}

\* callers on their way to saving one more record
Saving == {q \in Procs : proc[q].pc \in {"hfr_txn", "ir_check", "ir_save"}}

CanInit == Len(rev_reg_records) + Cardinality(Saving) < MaxInitCalls

\* a call of init_issuer_registry for one of the credential definitions
LifecycleInitIssuerRegistry(p) ==
    /\ proc[p].pc = "idle"
    /\ CanInit
    /\ \E a \in LifecycleArgs :
          proc' = [proc EXCEPT ![p] = [Idle EXCEPT !.pc = "ir_check",
                                                   !.args = a]]
    /\ UNCHANGED <<store, records, history>>

\* the identifier the registrar gives the definition of record i, and the
\* wallet name of an object under its final or its job identifier
RevRegObj(i) == <<"rev_reg", i>>
FinalName(o) == [kind |-> "id", obj |-> o]
JobName(o) == [kind |-> "job", obj |-> o]

\* records a registry identifier retrieves: retrieve_by_revoc_reg_id
WithRevRegId == {i \in DOMAIN rev_reg_records :
                    rev_reg_records[i].revoc_reg_id = Some(RevRegObj(i))}

\* handle_full_registry(revoc_reg_id), called with the identifier of a
\* stored record
HandleFullRegistryOf(p) ==
    /\ proc[p].pc = "idle"
    /\ CanInit
    /\ Len(hfLog) + Cardinality({q \in Procs : proc[q].hf # 0}) < MaxFullCalls
    /\ \E i \in WithRevRegId :
          proc' = [proc EXCEPT ![p] = [Idle EXCEPT !.pc = "hfr_txn", !.hf = i]]
    /\ UNCHANGED <<store, records, history>>

\* the transaction of handle_full_registry: retrieve for update, return if
\* the record is full, else set_state full and commit; then the call of
\* init_issuer_registry with the record's fields is under way, and meets a
\* resolver that answers or fails
HFR_SetState(p) ==
    /\ proc[p].pc = "hfr_txn"
    /\ LET registry == rev_reg_records[proc[p].hf] IN
       IF registry.state = "full"
       THEN /\ proc' = [proc EXCEPT ![p].result = "returned", ![p].pc = "done"]
            /\ UNCHANGED rev_reg_records
       ELSE /\ rev_reg_records' =
                  [rev_reg_records EXCEPT ![proc[p].hf].state = "full"]
            /\ \E r \in {"ok", "error"} :
                  proc' = [proc EXCEPT
                      ![p].pc = "ir_check",
                      ![p].args = [issuer_id |-> registry.issuer_id,
                                   cred_def_id |-> registry.cred_def_id,
                                   max_cred_num |-> registry.max_cred_num,
                                   revoc_def_type |-> registry.revoc_def_type,
                                   resolver |-> r, revocation |-> TRUE,
                                   notify |-> TRUE,
                                   endorser |-> "not needed"]]
    /\ UNCHANGED <<store, registry_state, new_registries, init_events,
                   wallet, txn_open, registrar, hfLog, history>>

\* what a registrar answers: RegistrationResult{id, state, job_id?}; here the
\* answers that carry the final identifier
RegStates == {"finished", "wait", "failed"}

\* create_and_register_revocation_registry_definition(profile, record): the
\* caller has retrieved the record and hands its in-memory copy over
CreateRevRegDef(p) ==
    /\ proc[p].pc = "idle"
    /\ \E i \in DOMAIN rev_reg_records :
          proc' = [proc EXCEPT ![p] =
                      [Idle EXCEPT !.pc = "rd_check", !.rec_idx = i,
                                   !.rec_copy = Some(rev_reg_records[i])]]
    /\ UNCHANGED <<store, records, history>>

\* mutant: the state of the record is not checked before the generation
RD_Check_NoStateCheck(p) ==
    /\ proc[p].pc = "rd_check"
    /\ \E generated \in BOOLEAN :
          IF generated
          THEN proc' = [proc EXCEPT ![p].pc = "rd_register"]
          ELSE proc' = [proc EXCEPT ![p].result = "issuer_error",
                                    ![p].pc = "done"]
    /\ UNCHANGED <<store, records, history>>

\* the state check on the copy, the fetch of the credential definition and
\* the local generation, which succeeds or raises
RD_Check(p) ==
    /\ proc[p].pc = "rd_check"
    /\ IF proc[p].rec_copy[1].state # "init"
       THEN proc' = [proc EXCEPT ![p].result = "revocation_error",
                                 ![p].pc = "done"]
       ELSE \E generated \in BOOLEAN :
               IF generated
               THEN proc' = [proc EXCEPT ![p].pc = "rd_register"]
               ELSE proc' = [proc EXCEPT ![p].result = "issuer_error",
                                         ![p].pc = "done"]
    /\ UNCHANGED <<store, records, history>>

\* register_revocation_registry_definition: the registrar raises, or answers
\* with a registration state; an object it already knows it refuses
RD_Register(p) ==
    /\ proc[p].pc = "rd_register"
    /\ LET o == RevRegObj(proc[p].rec_idx) IN
       \/ /\ proc' = [proc EXCEPT ![p].result = "registration_error",
                                  ![p].pc = "done"]
          /\ UNCHANGED registrar
       \/ /\ registrar[o] = "none"
          /\ \E st \in RegStates :
                /\ registrar' = [registrar EXCEPT ![o] = st]
                /\ proc' = [proc EXCEPT ![p].reg = Some(st),
                                        ![p].pc = "rd_store"]
    /\ UNCHANGED <<store, registry_state, new_registries, init_events,
                   rev_reg_records, wallet, txn_open, hfLog, history>>

\* the three entries create_and_register_revocation_registry_definition
\* inserts under rev_reg_def_id; the definition carries no state tag
RevRegEntries(o) ==
    {[category |-> c, name |-> FinalName(o), state |-> "none", value |-> 0] :
        c \in {"rev_reg_info", "rev_reg_def", "rev_reg_def_private"}}

Names(category) == {e.name : e \in {f \in wallet : f.category = category}}

\* the transaction opens and takes the three inserts; an insert under a
\* name the category holds already fails it
RD_Store(p) ==
    /\ proc[p].pc = "rd_store"
    /\ LET o == RevRegObj(proc[p].rec_idx) IN
       IF \E e \in RevRegEntries(o) : e.name \in Names(e.category)
       THEN /\ proc' = [proc EXCEPT ![p].result = "issuer_error",
                                    ![p].pc = "done"]
            /\ UNCHANGED txn_open
       ELSE /\ txn_open' = txn_open \cup {p}
            /\ proc' = [proc EXCEPT ![p].pc = "rd_commit"]
    /\ UNCHANGED <<store, registry_state, new_registries, init_events,
                   rev_reg_records, wallet, registrar, hfLog, history>>

\* txn.commit(): the three entries are stored together
RD_Commit(p) ==
    /\ proc[p].pc = "rd_commit"
    /\ wallet' = wallet \cup RevRegEntries(RevRegObj(proc[p].rec_idx))
    /\ txn_open' = txn_open \ {p}
    /\ proc' = [proc EXCEPT ![p].pc = "rd_save"]
    /\ UNCHANGED <<store, registry_state, new_registries, init_events,
                   rev_reg_records, registrar, hfLog, history>>

\* the fields set on the copy, state posted, and save of the copy
RD_Save(p) ==
    /\ proc[p].pc = "rd_save"
    /\ LET i == proc[p].rec_idx
           saved == [proc[p].rec_copy[1] EXCEPT
                        !.revoc_reg_id = Some(RevRegObj(i)),
                        !.state = "posted"]
       IN /\ rev_reg_records' = [rev_reg_records EXCEPT ![i] = saved]
          /\ proc' = [proc EXCEPT ![p].rec_copy = Some(saved),
                                  ![p].result = "rev_reg_def_result",
                                  ![p].pc = "done"]
    /\ UNCHANGED <<store, registry_state, new_registries, init_events,
                   wallet, txn_open, registrar, hfLog, history>>

\* create_and_register_revocation_list(record), with the caller's copy
CreateRevList(p) ==
    /\ proc[p].pc = "idle"
    /\ \E i \in DOMAIN rev_reg_records :
          proc' = [proc EXCEPT ![p] =
                      [Idle EXCEPT !.pc = "rl_check", !.rec_idx = i,
                                   !.rec_copy = Some(rev_reg_records[i])]]
    /\ UNCHANGED <<store, records, history>>

\* the checks on the copy and the fetch of the definition
RL_Check(p) ==
    /\ proc[p].pc = "rl_check"
    /\ LET rec == proc[p].rec_copy[1] IN
       IF \/ rec.revoc_reg_id = None
          \/ rec.revoc_def_type = None
          \/ rec.state # "posted"
       THEN proc' = [proc EXCEPT ![p].result = "revocation_error",
                                 ![p].pc = "done"]
       ELSE IF FinalName(rec.revoc_reg_id[1]) \notin Names("rev_reg_def")
       THEN proc' = [proc EXCEPT ![p].result = "issuer_error",
                                 ![p].pc = "done"]
       ELSE proc' = [proc EXCEPT ![p].pc = "rl_register"]
    /\ UNCHANGED <<store, records, history>>

\* register_revocation_list: the registrar raises or answers
RL_Register(p) ==
    /\ proc[p].pc = "rl_register"
    /\ \/ proc' = [proc EXCEPT ![p].result = "registration_error",
                               ![p].pc = "done"]
       \/ proc' = [proc EXCEPT ![p].pc = "rl_store"]
    /\ UNCHANGED <<store, records, history>>

\* the insert of the list under rev_reg_id, in a session of its own
RL_Store(p) ==
    /\ proc[p].pc = "rl_store"
    /\ LET name == FinalName(proc[p].rec_copy[1].revoc_reg_id[1]) IN
       IF name \in Names("rev_list")
       THEN /\ proc' = [proc EXCEPT ![p].result = "issuer_error",
                                    ![p].pc = "done"]
            /\ UNCHANGED wallet
       ELSE /\ wallet' = wallet \cup
                  {[category |-> "rev_list", name |-> name,
                    state |-> "none", value |-> 0]}
            /\ proc' = [proc EXCEPT ![p].pc = "rl_save"]
    /\ UNCHANGED <<store, registry_state, new_registries, init_events,
                   rev_reg_records, txn_open, registrar, hfLog, history>>

\* the copy, still posted, becomes active and is saved
RL_Save(p) ==
    /\ proc[p].pc = "rl_save"
    /\ LET i == proc[p].rec_idx
           saved == [proc[p].rec_copy[1] EXCEPT !.state = "active"]
       IN /\ rev_reg_records' = [rev_reg_records EXCEPT ![i] = saved]
          /\ proc' = [proc EXCEPT ![p].rec_copy = Some(saved),
                                  ![p].result = "rev_list_result",
                                  ![p].pc = "done"]
    /\ UNCHANGED <<store, registry_state, new_registries, init_events,
                   wallet, txn_open, registrar, hfLog, history>>

\* query_by_cred_def_id(session, cred_def_id, state): the records of the
\* credential definition whose state passes the filter
QueryByCredDefId(cred_def_id, states) ==
    {i \in DOMAIN rev_reg_records :
        /\ rev_reg_records[i].cred_def_id = cred_def_id
        /\ rev_reg_records[i].state \in states}

RecordStates == {"init", "posted", "active", "full"}

\* sorted(records)[0]: records order by their time of creation
Oldest(S) == CHOOSE i \in S : \A j \in S : i <= j

\* get_or_create_active_registry(cred_def_id, max_cred_num)
GetOrCreateActiveRegistry(p) ==
    /\ proc[p].pc = "idle"
    /\ \E cd \in CredDefIds :
          proc' = [proc EXCEPT ![p] =
                      [Idle EXCEPT !.pc = "ga_active", !.args.cred_def_id = cd]]
    /\ UNCHANGED <<store, records, history>>

GA_GetActive_NotFull(p) ==
    /\ proc[p].pc = "ga_active"
    /\ LET current == QueryByCredDefId(proc[p].args.cred_def_id,
                                       RecordStates \ {"full"}) IN
       IF current # {}
       THEN proc' = [proc EXCEPT ![p].rec_idx = Oldest(current),
                                 ![p].result = "active_registry",
                                 ![p].pc = "done"]
       ELSE proc' = [proc EXCEPT ![p].pc = "ga_query"]
    /\ UNCHANGED <<store, records, history>>

\* get_active_issuer_rev_reg_record: the first of the sorted active records
\* is returned with its registry; none makes the call go on
GA_GetActive(p) ==
    /\ proc[p].pc = "ga_active"
    /\ LET current == QueryByCredDefId(proc[p].args.cred_def_id, {"active"}) IN
       IF current # {}
       THEN proc' = [proc EXCEPT ![p].rec_idx = Oldest(current),
                                 ![p].result = "active_registry",
                                 ![p].pc = "done"]
       ELSE proc' = [proc EXCEPT ![p].pc = "ga_query"]
    /\ UNCHANGED <<store, records, history>>

GA_QueryNonFull_QueriesActive(p) ==
    /\ proc[p].pc = "ga_query"
    /\ LET rev_reg_recs ==
              QueryByCredDefId(proc[p].args.cred_def_id, {"active"}) IN
       IF rev_reg_recs = {}
       THEN proc' = [proc EXCEPT ![p].result = "type_error", ![p].pc = "done"]
       ELSE proc' = [proc EXCEPT ![p].result = "none_returned",
                                 ![p].pc = "done"]
    /\ UNCHANGED <<store, records, history>>

\* the query for records that are not full; with none, the call
\* init_issuer_registry(cred_def_id, max_cred_num=max_cred_num) binds
\* cred_def_id to the parameter issuer_id and leaves the required parameter
\* cred_def_id without a value: TypeError, before the function's body runs
GA_QueryNonFull(p) ==
    /\ proc[p].pc = "ga_query"
    /\ LET rev_reg_recs ==
              QueryByCredDefId(proc[p].args.cred_def_id,
                               RecordStates \ {"full"}) IN
       IF rev_reg_recs = {}
       THEN proc' = [proc EXCEPT ![p].result = "type_error", ![p].pc = "done"]
       ELSE proc' = [proc EXCEPT ![p].result = "none_returned",
                                 ![p].pc = "done"]
    /\ UNCHANGED <<store, records, history>>

\* ------------------------------------------------------ schema registration

SchemaObj(k) == <<"schema", k>>

\* contents a schema can have
SchemaValues == {1, 2}

\* what register_schema answers: a state, with or without the final
\* schema_id, with or without a job_id; a finished registration has its
\* schema_id and a pending one its job_id
SchemaResults ==
    {r \in [state : RegStates, schema_id : BOOLEAN, job_id : BOOLEAN] :
        /\ r.state = "finished" => r.schema_id
        /\ r.state = "wait" => r.job_id}

\* create_and_register_schema: the look into the wallet for a schema of this
\* name, version and issuer, then Schema.create
CreateAndRegisterSchema(p) ==
    /\ proc[p].pc = "idle"
    /\ \E k \in 1..MaxSchemas, v \in SchemaValues :
          IF \E e \in wallet : e.category = "schema" /\ e.name.obj = SchemaObj(k)
          THEN proc' = [proc EXCEPT ![p] =
                           [Idle EXCEPT !.pc = "done", !.obj = k,
                                        !.result = "schema_exists"]]
          ELSE proc' = [proc EXCEPT ![p] =
                           [Idle EXCEPT !.pc = "cs_register", !.obj = k,
                                        !.value = v]]
    /\ UNCHANGED <<store, records, history>>

\* register_schema: the registrar raises, or answers for a schema it has
\* not seen
CS_Register(p) ==
    /\ proc[p].pc = "cs_register"
    /\ LET o == SchemaObj(proc[p].obj) IN
       \/ /\ proc' = [proc EXCEPT ![p].result = "registration_error",
                                  ![p].pc = "done"]
          /\ UNCHANGED registrar
       \/ /\ registrar[o] = "none"
          /\ \E r \in SchemaResults :
                /\ registrar' = [registrar EXCEPT ![o] = r.state]
                /\ proc' = [proc EXCEPT ![p].reg = Some(r),
                                        ![p].pc = "cs_store"]
    /\ UNCHANGED <<store, registry_state, new_registries, init_events,
                   rev_reg_records, wallet, txn_open, hfLog, history>>

\* _store_schema: ident = schema_id or job_id, and the insert under it with
\* the state of the result as tag
CS_Store(p) ==
    /\ proc[p].pc = "cs_store"
    /\ LET o == SchemaObj(proc[p].obj)
           r == proc[p].reg[1]
           ident == IF r.schema_id THEN FinalName(o) ELSE JobName(o)
       IN IF ~r.schema_id /\ ~r.job_id
          THEN /\ proc' = [proc EXCEPT ![p].result = "value_error",
                                       ![p].pc = "done"]
               /\ UNCHANGED wallet
          ELSE IF ident \in Names("schema")
          THEN /\ proc' = [proc EXCEPT ![p].result = "issuer_error",
                                       ![p].pc = "done"]
               /\ UNCHANGED wallet
          ELSE /\ wallet' = wallet \cup
                     {[category |-> "schema", name |-> ident,
                       state |-> r.state, value |-> proc[p].value]}
               /\ proc' = [proc EXCEPT ![p].result = "schema_result",
                                       ![p].pc = "done"]
    /\ UNCHANGED <<store, registry_state, new_registries, init_events,
                   rev_reg_records, txn_open, registrar, hfLog, history>>

\* a pending registration completes at the registrar
RegistrarCompletes ==
    /\ \E o \in Objects :
          /\ registrar[o] = "wait"
          /\ registrar' = [registrar EXCEPT ![o] = "finished"]
    /\ UNCHANGED <<store, registry_state, new_registries, init_events,
                   rev_reg_records, wallet, txn_open, hfLog, proc, history>>

\* entries of a category under a name
Entries(category, name) ==
    {e \in wallet : e.category = category /\ e.name = name}

\* finish_schema(job_id, schema_id)
FinishSchema(p) ==
    /\ proc[p].pc = "idle"
    /\ \E k \in 1..MaxSchemas :
          proc' = [proc EXCEPT ![p] = [Idle EXCEPT !.pc = "fs_txn", !.obj = k]]
    /\ UNCHANGED <<store, records, history>>

\* callers whose open transaction has fetched the entry of schema k for
\* update
HoldsEntry(k) == {q \in txn_open : proc[q].obj = k}

FS_Txn_InsertsAtOnce(p) ==
    /\ proc[p].pc = "fs_txn"
    /\ HoldsEntry(proc[p].obj) = {}
    /\ LET o == SchemaObj(proc[p].obj)
           found == Entries("schema", JobName(o))
       IN IF found = {}
          THEN /\ proc' = [proc EXCEPT ![p].result = "issuer_error",
                                       ![p].pc = "done"]
               /\ UNCHANGED <<wallet, txn_open>>
          ELSE IF FinalName(o) \in Names("schema")
          THEN /\ proc' = [proc EXCEPT ![p].result = "askar_error",
                                       ![p].pc = "done"]
               /\ UNCHANGED <<wallet, txn_open>>
          ELSE /\ \E e \in found :
                     /\ proc' = [proc EXCEPT ![p].entry = Some(e),
                                             ![p].pc = "fs_commit"]
                     /\ wallet' = wallet \cup
                           {[e EXCEPT !.name = FinalName(o),
                                      !.state = "finished"]}
               /\ txn_open' = txn_open \cup {p}
    /\ UNCHANGED <<store, registry_state, new_registries, init_events,
                   rev_reg_records, registrar, hfLog, history>>

\* the transaction of finish_schema up to its commit: _finish_registration
\* fetches the entry under the job id for update and raises without one;
\* the insert under the registered id and the removal of the job entry
\* wait in the transaction
FS_Txn(p) ==
    /\ proc[p].pc = "fs_txn"
    /\ HoldsEntry(proc[p].obj) = {}
    /\ LET o == SchemaObj(proc[p].obj)
           found == Entries("schema", JobName(o))
       IN IF found = {}
          THEN /\ proc' = [proc EXCEPT ![p].result = "issuer_error",
                                       ![p].pc = "done"]
               /\ UNCHANGED txn_open
          ELSE IF FinalName(o) \in Names("schema")
          THEN /\ proc' = [proc EXCEPT ![p].result = "askar_error",
                                       ![p].pc = "done"]
               /\ UNCHANGED txn_open
          ELSE /\ \E e \in found :
                     proc' = [proc EXCEPT ![p].entry = Some(e),
                                          ![p].pc = "fs_commit"]
               /\ txn_open' = txn_open \cup {p}
    /\ UNCHANGED <<store, registry_state, new_registries, init_events,
                   rev_reg_records, wallet, registrar, hfLog, history>>

\* txn.commit(): the job entry goes and the entry under the registered id,
\* with the same value and state finished, comes, in one
FS_Commit(p) ==
    /\ proc[p].pc = "fs_commit"
    /\ LET e == proc[p].entry[1] IN
       wallet' = (wallet \ {e}) \cup
                    {[e EXCEPT !.name = FinalName(SchemaObj(proc[p].obj)),
                               !.state = "finished"]}
    /\ txn_open' = txn_open \ {p}
    /\ proc' = [proc EXCEPT ![p].result = "finished", ![p].pc = "done"]
    /\ UNCHANGED <<store, registry_state, new_registries, init_events,
                   rev_reg_records, registrar, hfLog, history>>

\* ------------------------------------ finish_revocation_registry_definition

\* finish_revocation_registry_definition(rev_reg_def_id), with the
\* identifier of the registry of a record
FinishRevRegDef(p) ==
    /\ proc[p].pc = "idle"
    /\ \E i \in DOMAIN rev_reg_records :
          proc' = [proc EXCEPT ![p] =
                      [Idle EXCEPT !.pc = "frd_txn", !.rec_idx = i]]
    /\ UNCHANGED <<store, records, history>>

\* _update_entry_state(CATEGORY_REV_REG_DEF, name, STATE_FINISHED): the
\* entry is fetched for update and a missing one raises; the replace is
\* made under CATEGORY_SCHEMA, where it fails unless a schema has that name;
\* the transaction is left without commit, which drops what it staged
FRD_Txn(p) ==
    /\ proc[p].pc = "frd_txn"
    /\ LET name == FinalName(RevRegObj(proc[p].rec_idx)) IN
       IF Entries("rev_reg_def", name) = {}
       THEN proc' = [proc EXCEPT ![p].result = "issuer_error",
                                 ![p].pc = "done"]
       ELSE IF Entries("schema", name) = {}
       THEN proc' = [proc EXCEPT ![p].result = "issuer_error",
                                 ![p].pc = "done"]
       ELSE proc' = [proc EXCEPT ![p].result = "returned", ![p].pc = "done"]
    /\ UNCHANGED <<store, records, history>>

\* ------------------------------ create_credential on a registered registry

\* the categories create_credential fetches under revoc_reg_id
AllocationCategories ==
    {"rev_list", "rev_reg_info", "rev_reg_def", "rev_reg_def_private"}

\* create_credential(..., revoc_reg_id) for the registry of a record; the
\* stored index entry carries curr_id as its value
CreateCredentialOn(p) ==
    /\ proc[p].pc = "idle"
    /\ \E i \in DOMAIN rev_reg_records :
          proc' = [proc EXCEPT ![p] =
                      [Idle EXCEPT !.pc = "cw_txn", !.rec_idx = i]]
    /\ UNCHANGED <<store, records, history>>

\* mutant: a registry without a stored status list is not refused
CW_Allocate_NoListCheck(p) ==
    /\ proc[p].pc = "cw_txn"
    /\ LET i == proc[p].rec_idx
           name == FinalName(RevRegObj(i))
           info == Entries("rev_reg_info", name)
       IN IF \E c \in AllocationCategories \ {"rev_list"} :
                 Entries(c, name) = {}
          THEN /\ proc' = [proc EXCEPT ![p].result = "issuer_error",
                                       ![p].pc = "done"]
               /\ UNCHANGED wallet
          ELSE LET e == CHOOSE x \in info : TRUE
                   index == e.value + 1
               IN IF index > rev_reg_records[i].max_cred_num[1]
                  THEN /\ proc' = [proc EXCEPT ![p].result = "full",
                                               ![p].pc = "done"]
                       /\ UNCHANGED wallet
                  ELSE /\ wallet' = (wallet \ {e})
                                       \cup {[e EXCEPT !.value = index]}
                       /\ proc' = [proc EXCEPT ![p].rev_reg_index = index,
                                               ![p].pc = "cw_create"]
    /\ UNCHANGED <<store, registry_state, new_registries, init_events,
                   rev_reg_records, txn_open, registrar, hfLog, history>>

\* the transaction of create_credential: the four entries are fetched and
\* a missing one raises; the index is computed and checked against
\* max_cred_num; the index entry is replaced and the transaction committed
CW_Allocate(p) ==
    /\ proc[p].pc = "cw_txn"
    /\ LET i == proc[p].rec_idx
           name == FinalName(RevRegObj(i))
           info == Entries("rev_reg_info", name)
       IN IF \E c \in AllocationCategories : Entries(c, name) = {}
          THEN /\ proc' = [proc EXCEPT ![p].result = "issuer_error",
                                       ![p].pc = "done"]
               /\ UNCHANGED wallet
          ELSE LET e == CHOOSE x \in info : TRUE
                   index == e.value + 1
               IN IF index > rev_reg_records[i].max_cred_num[1]
                  THEN /\ proc' = [proc EXCEPT ![p].result = "full",
                                               ![p].pc = "done"]
                       /\ UNCHANGED wallet
                  ELSE /\ wallet' = (wallet \ {e})
                                       \cup {[e EXCEPT !.value = index]}
                       /\ proc' = [proc EXCEPT ![p].rev_reg_index = index,
                                               ![p].pc = "cw_create"]
    /\ UNCHANGED <<store, registry_state, new_registries, init_events,
                   rev_reg_records, txn_open, registrar, hfLog, history>>

\* Credential.create in the executor: the credential is returned, or an
\* AnoncredsError is raised after the index was committed
CW_Create(p) ==
    /\ proc[p].pc = "cw_create"
    /\ \E r \in {"credential", "create_error"} :
          proc' = [proc EXCEPT ![p].result = r, ![p].pc = "done"]
    /\ UNCHANGED <<store, records, history>>

\* ------------------------------------------------------ finish_cred_def

MaxCredDefs == 1

CredDefObj(k) == <<"cred_def", k>>

\* the categories a credential definition is stored in
CredDefCategories == {"cred_def", "cred_def_private", "cred_def_key_proof"}

\* what register_credential_definition answers: a state, with or without
\* the credential_definition_id, with or without a job_id
CredDefResults ==
    {r \in [state : RegStates, credential_definition_id : BOOLEAN,
            job_id : BOOLEAN] :
        /\ r.state = "finished" => r.credential_definition_id
        /\ r.state = "wait" => r.job_id}

\* create_and_register_credential_definition: CredentialDefinition.create
CreateAndRegisterCredDef(p) ==
    /\ proc[p].pc = "idle"
    /\ \E k \in 1..MaxCredDefs, v \in SchemaValues :
          proc' = [proc EXCEPT ![p] =
                      [Idle EXCEPT !.pc = "cd_register", !.obj = k,
                                   !.value = v]]
    /\ UNCHANGED <<store, records, history>>

\* register_credential_definition: the registrar raises or answers
CD_Register(p) ==
    /\ proc[p].pc = "cd_register"
    /\ \/ proc' = [proc EXCEPT ![p].result = "issuer_error", ![p].pc = "done"]
       \/ \E r \in CredDefResults :
             proc' = [proc EXCEPT ![p].reg = Some(r), ![p].pc = "cd_store"]
    /\ UNCHANGED <<store, records, history>>

\* the entries stored for a credential definition under ident
CredDefEntries(ident, state, value) ==
    {[category |-> "cred_def", name |-> ident, state |-> state,
      value |-> value],
     [category |-> "cred_def_private", name |-> ident, state |-> "none",
      value |-> value],
     [category |-> "cred_def_key_proof", name |-> ident, state |-> "none",
      value |-> value]}

\* ident = credential_definition_id or job_id, and the transaction with
\* the three inserts and its commit; an insert under a name its category
\* holds fails the transaction, and an insert under the name an open
\* transaction has inserted waits for that transaction
CD_Store(p) ==
    /\ proc[p].pc = "cd_store"
    /\ proc[p].reg[1].credential_definition_id
       => HoldsEntry(proc[p].obj) = {}
    /\ LET o == CredDefObj(proc[p].obj)
           r == proc[p].reg[1]
           ident == IF r.credential_definition_id THEN FinalName(o)
                    ELSE JobName(o)
       IN IF ~r.credential_definition_id /\ ~r.job_id
          THEN /\ proc' = [proc EXCEPT ![p].result = "issuer_error",
                                       ![p].pc = "done"]
               /\ UNCHANGED wallet
          ELSE IF \E c \in CredDefCategories : ident \in Names(c)
          THEN /\ proc' = [proc EXCEPT ![p].result = "issuer_error",
                                       ![p].pc = "done"]
               /\ UNCHANGED wallet
          ELSE /\ wallet' = wallet \cup
                     CredDefEntries(ident, r.state, proc[p].value)
               /\ proc' = [proc EXCEPT ![p].result = "cred_def_result",
                                       ![p].pc = "done"]
    /\ UNCHANGED <<store, registry_state, new_registries, init_events,
                   rev_reg_records, txn_open, registrar, hfLog, history>>

\* finish_cred_def(job_id, cred_def_id)
FinishCredDef(p) ==
    /\ proc[p].pc = "idle"
    /\ \E k \in 1..MaxCredDefs :
          proc' = [proc EXCEPT ![p] =
                      [Idle EXCEPT !.pc = "fc_cred_def", !.obj = k]]
    /\ UNCHANGED <<store, records, history>>

\* _finish_registration(txn, category, job_id, registered_id) cannot go
\* on: no entry under the job id, or the registered id is taken
FinishRegistrationFails(category, o) ==
    \/ Entries(category, JobName(o)) = {}
    \/ FinalName(o) \in Names(category)

\* the error a failing _finish_registration ends the call with
FinishRegistrationError(category, o) ==
    IF Entries(category, JobName(o)) = {} THEN "issuer_error"
    ELSE "askar_error"

\* the entries of the three categories under the job id, re-keyed
ReKeyed(found, o) ==
    {[e EXCEPT !.name = FinalName(o), !.state = "finished"] : e \in found}

\* mutant: the credential definition is re-keyed in the store at once,
\* ahead of the commit of the transaction
FC_CredDef_InsertsAtOnce(p) ==
    /\ proc[p].pc = "fc_cred_def"
    /\ HoldsEntry(proc[p].obj) = {}
    /\ LET o == CredDefObj(proc[p].obj) IN
       IF FinishRegistrationFails("cred_def", o)
       THEN /\ proc' = [proc EXCEPT
                          ![p].result = FinishRegistrationError("cred_def", o),
                          ![p].pc = "done"]
            /\ UNCHANGED <<wallet, txn_open>>
       ELSE /\ proc' = [proc EXCEPT ![p].pc = "fc_private"]
            /\ wallet' = (wallet \ Entries("cred_def", JobName(o)))
                            \cup ReKeyed(Entries("cred_def", JobName(o)), o)
            /\ txn_open' = txn_open \cup {p}
    /\ UNCHANGED <<store, registry_state, new_registries, init_events,
                   rev_reg_records, registrar, hfLog, history>>

\* the transaction opens and _finish_registration runs for
\* CATEGORY_CRED_DEF: the fetch for update waits for a transaction that
\* holds the entry; its insert and its remove wait in the transaction
FC_CredDef(p) ==
    /\ proc[p].pc = "fc_cred_def"
    /\ HoldsEntry(proc[p].obj) = {}
    /\ LET o == CredDefObj(proc[p].obj) IN
       IF FinishRegistrationFails("cred_def", o)
       THEN /\ proc' = [proc EXCEPT
                          ![p].result = FinishRegistrationError("cred_def", o),
                          ![p].pc = "done"]
            /\ UNCHANGED txn_open
       ELSE /\ proc' = [proc EXCEPT ![p].pc = "fc_private"]
            /\ txn_open' = txn_open \cup {p}
    /\ UNCHANGED <<store, registry_state, new_registries, init_events,
                   rev_reg_records, wallet, registrar, hfLog, history>>

\* _finish_registration for CATEGORY_CRED_DEF_PRIVATE; an error leaves the
\* transaction without commit
FC_Private(p) ==
    /\ proc[p].pc = "fc_private"
    /\ LET o == CredDefObj(proc[p].obj) IN
       IF FinishRegistrationFails("cred_def_private", o)
       THEN /\ proc' = [proc EXCEPT
                          ![p].result =
                              FinishRegistrationError("cred_def_private", o),
                          ![p].pc = "done"]
            /\ txn_open' = txn_open \ {p}
       ELSE /\ proc' = [proc EXCEPT ![p].pc = "fc_key_proof"]
            /\ UNCHANGED txn_open
    /\ UNCHANGED <<store, registry_state, new_registries, init_events,
                   rev_reg_records, wallet, registrar, hfLog, history>>

\* _finish_registration for CATEGORY_CRED_DEF_KEY_PROOF
FC_KeyProof(p) ==
    /\ proc[p].pc = "fc_key_proof"
    /\ LET o == CredDefObj(proc[p].obj) IN
       IF FinishRegistrationFails("cred_def_key_proof", o)
       THEN /\ proc' = [proc EXCEPT
                          ![p].result =
                              FinishRegistrationError("cred_def_key_proof", o),
                          ![p].pc = "done"]
            /\ txn_open' = txn_open \ {p}
       ELSE /\ proc' = [proc EXCEPT ![p].pc = "fc_commit"]
            /\ UNCHANGED txn_open
    /\ UNCHANGED <<store, registry_state, new_registries, init_events,
                   rev_reg_records, wallet, registrar, hfLog, history>>

\* txn.commit(): the three job entries go and the three entries under the
\* credential definition id come, in one
FC_Commit(p) ==
    /\ proc[p].pc = "fc_commit"
    /\ LET o == CredDefObj(proc[p].obj)
           found == {e \in wallet : /\ e.category \in CredDefCategories
                                    /\ e.name = JobName(o)}
       IN wallet' = (wallet \ found) \cup ReKeyed(found, o)
    /\ txn_open' = txn_open \ {p}
    /\ proc' = [proc EXCEPT ![p].result = "finished", ![p].pc = "done"]
    /\ UNCHANGED <<store, registry_state, new_registries, init_events,
                   rev_reg_records, registrar, hfLog, history>>

\* ------------------------------------------------------------------ caller

\* the caller takes the result (or the exception); the call's frame is gone
Return(p) ==
    /\ proc[p].pc = "done"
    /\ proc' = [proc EXCEPT ![p] = Idle]
    /\ hfLog' = IF proc[p].hf # 0
                THEN Append(hfLog, <<proc[p].hf, proc[p].created>>)
                ELSE hfLog
    /\ UNCHANGED <<store, registry_state, new_registries, init_events,
                   rev_reg_records, wallet, txn_open, registrar, history>>

Next ==
    \E p \in Procs :
        \/ CreateCredential(p)
        \/ CC_FetchInfo(p)
        \/ CC_Allocate(p)
        \/ CC_CreateOk(p)
        \/ CC_CreateFail(p)
        \/ RevokeCredentials(p)
        \/ RV_Attempt(p)
        \/ RV_FetchInfo(p)
        \/ RV_TxnFetchList(p)
        \/ RV_Commit(p)
        \/ HandleFullRegistry(p)
        \/ HF_SetState(p)
        \/ HF_InitIssuerRegistry(p)
        \/ Return(p)

Spec == Init /\ [][Next]_vars

\* the scheduling the calls run under: a coroutine that can take its next
\* step takes it, and a for_update fetch that waits for an entry is served
\* when the entry is released again and again
RevokeFairness ==
    \A p \in Procs :
        /\ WF_vars(RV_Attempt(p))
        /\ WF_vars(RV_FetchInfo(p))
        /\ WF_vars(CC_Allocate(p))
        /\ SF_vars(RV_TxnFetchList(p))
        /\ SF_vars(RV_Commit(p))

\* a registry from which one credential has been issued
TerminationInit ==
    /\ rev_reg_info = [curr_id |-> 1, used_ids |-> {}]
    /\ rev_list_store = {}
    /\ info_lock = {}
    /\ list_lock = {}
    /\ registry_state = "active"
    /\ new_registries = 0
    /\ init_events = 0
    /\ rev_reg_records = <<>>
    /\ wallet = {}
    /\ txn_open = {}
    /\ registrar = [o \in Objects |-> "none"]
    /\ hfLog = <<>>
    /\ proc = [p \in Procs |-> Idle]
    /\ allocLog = <<1>>
    /\ issued = {1}
    /\ skipped = {}

\* allocations and revocations on the one registry, in any interleaving
TerminationNext ==
    \E p \in Procs :
        \/ CreateCredential(p)
        \/ CC_FetchInfo(p)
        \/ CC_Allocate(p)
        \/ CC_CreateOk(p)
        \/ RevokeCredentials(p)
        \/ RV_Attempt(p)
        \/ RV_FetchInfo(p)
        \/ RV_TxnFetchList(p)
        \/ RV_Commit(p)
        \/ Return(p)

SpecTermination ==
    TerminationInit /\ [][TerminationNext]_vars /\ RevokeFairness

InitRegistryNext ==
    \E p \in Procs :
        \/ InitIssuerRegistry(p)
        \/ IR_Check(p)
        \/ IR_Save(p)
        \/ IR_Notify(p)
        \/ Return(p)

SpecInitRegistry == Init /\ [][InitRegistryNext]_vars

\* ------------------------------------------------------------- properties

Range(seq) == {seq[k] : k \in DOMAIN seq}
Occurrences(seq, x) == Cardinality({k \in DOMAIN seq : seq[k] = x})

\* callers that hold an index a committed allocation returned to them
HoldsIndex(p) ==
    \/ proc[p].pc = "cc_create"
    \/ proc[p].pc = "done" /\ proc[p].result \in {"credential", "create_error"}

\* C1: concurrent allocations on one registry all succeed while capacity
\* remains, no two of them receive the same index, the indices handed out
\* are exactly 1..N for N committed allocations, and no two callers hold an
\* uncommitted read of the same curr_id (at most one is between its
\* for-update fetch and its commit).
C1_NoDoubleAllocation ==
    /\ \A p, q \in Procs :
          p # q /\ HoldsIndex(p) /\ HoldsIndex(q)
             => proc[p].rev_reg_index # proc[q].rev_reg_index
    /\ \A i \in Range(allocLog) : Occurrences(allocLog, i) = 1
    /\ Range(allocLog) = 1..Len(allocLog)
    /\ \A p, q \in Procs :
          proc[p].pc = "cc_txn" /\ proc[q].pc = "cc_txn" => p = q
    /\ \A p \in Procs :
          proc[p].pc = "done" /\ proc[p].result = "full"
             => Len(allocLog) >= max_cred_num

C1_Witness ==
    \E p, q \in Procs :
        /\ p # q
        /\ proc[p].pc = "cc_create" /\ proc[q].pc = "cc_create"
        /\ {proc[p].rev_reg_index, proc[q].rev_reg_index} = {1, 2}

\* C2: an allocation attempted while curr_id equals max_cred_num ends with
\* the registry-full error in that very step (no retry) and changes neither
\* curr_id, used_ids, the stored status list, the registry record's state
\* nor the number of registry records.
C2_FullAllocationMutatesNothing ==
    [][\A p \in Procs :
          (/\ proc[p].pc = "cc_txn"
           /\ proc'[p] # proc[p]
           /\ rev_reg_info.curr_id = max_cred_num)
          => /\ proc'[p].pc = "done"
             /\ proc'[p].result = "full"
             /\ rev_reg_info' = rev_reg_info
             /\ rev_list_store' = rev_list_store
             /\ registry_state' = registry_state
             /\ new_registries' = new_registries]_vars

C2_Witness ==
    \E p \in Procs :
        /\ proc[p].pc = "done" /\ proc[p].result = "full"
        /\ rev_reg_info.curr_id = max_cred_num
        /\ registry_state = "active"
        /\ new_registries = 0

\* C3: in every reachable state 0 <= curr_id <= max_cred_num.
C3_CurrIdWithinCapacity ==
    /\ 0 <= rev_reg_info.curr_id
    /\ rev_reg_info.curr_id <= max_cred_num

C3_Witness ==
    /\ rev_reg_info.curr_id = max_cred_num
    /\ rev_reg_info.used_ids # {}
    /\ \E p \in Procs : proc[p].pc = "cc_txn"

\* C4: an index whose credential creation failed after the allocation was
\* committed stays consumed: curr_id is not below it, it was handed out
\* exactly once, and no caller holds it or was issued a credential with it.
C4_SkippedIndexNeverReused ==
    \A i \in skipped :
        /\ i <= rev_reg_info.curr_id
        /\ Occurrences(allocLog, i) = 1
        /\ i \notin issued
        /\ \A p \in Procs : proc[p].pc = "cc_create" => proc[p].rev_reg_index # i

C4_Witness ==
    \E i \in skipped : \E j \in issued : j > i

\* C5: the committed allocations are 1, 2, ..., curr_id in commit order
\* (strictly increasing, one per unit of curr_id), and every index in
\* 1..curr_id without an issued credential is one whose creation failed or
\* one whose creation is still running.
C5_Pending ==
    {proc[p].rev_reg_index : p \in {q \in Procs : proc[q].pc = "cc_create"}}

C5_IncreasingNoGaps ==
    /\ allocLog = [k \in 1..rev_reg_info.curr_id |-> k]
    /\ (1..rev_reg_info.curr_id) \ issued = skipped \cup C5_Pending
    /\ issued \cap (skipped \cup C5_Pending) = {}

C5_Witness ==
    /\ rev_reg_info.curr_id = max_cred_num
    /\ skipped = {2}
    /\ issued = {1, 3}

TwoRevokesInit ==
    /\ rev_reg_info = [curr_id |-> max_cred_num, used_ids |-> {}]
    /\ rev_list_store = {}
    /\ info_lock = {}
    /\ list_lock = {}
    /\ registry_state = "active"
    /\ new_registries = 0
    /\ init_events = 0
    /\ rev_reg_records = <<>>
    /\ wallet = {}
    /\ txn_open = {}
    /\ registrar = [o \in Objects |-> "none"]
    /\ hfLog = <<>>
    /\ allocLog = [k \in 1..max_cred_num |-> k]
    /\ issued = 1..max_cred_num
    /\ skipped = {}
    /\ \E req \in [Procs -> {S \in Requests : S # {} /\ S \subseteq 1..max_cred_num}] :
          /\ \A p, q \in Procs : p # q => req[p] \cap req[q] = {}
          /\ proc = [p \in Procs |->
                        [Idle EXCEPT !.pc = "rv_loop", !.cred_revoc_ids = req[p]]]

TwoRevokesNext ==
    \E p \in Procs :
        \/ RV_Attempt(p)
        \/ RV_FetchInfo(p)
        \/ RV_TxnFetchList(p)
        \/ RV_Commit(p)

SpecTwoRevokes == TwoRevokesInit /\ [][TwoRevokesNext]_vars

C7_Requested == UNION {proc[p].cred_revoc_ids : p \in Procs}

C7_UsedIdsUnion ==
    (\A p \in Procs : proc[p].pc = "done")
       => /\ \A p \in Procs :
                proc[p].result = "revoke_result" /\ proc[p].failed_crids = {}
          /\ rev_reg_info.used_ids = C7_Requested

C11_ExhaustedCallWroteNothing ==
    \A p \in Procs :
        (proc[p].pc = "done" /\ AttemptsExhausted(proc[p].attempt))
           => /\ proc[p].result = "conflict_error"
              /\ proc[p].conflicts = proc[p].attempt - 1
              /\ ~proc[p].committed

C11_Witness ==
    \E p \in Procs :
        /\ proc[p].pc = "done"
        /\ proc[p].result = "conflict_error"
        /\ proc[p].cred_revoc_ids \subseteq 1..rev_reg_info.curr_id
        /\ rev_reg_info.used_ids # {}

\* C18: in every reachable store state every index in used_ids lies in
\* 1..curr_id, whatever the interleaving of allocations and revocations.
C18_UsedIdsWereAllocated ==
    \A i \in rev_reg_info.used_ids :
        1 <= i /\ i <= rev_reg_info.curr_id

C18_Witness ==
    /\ rev_reg_info.used_ids # {}
    /\ rev_reg_info.curr_id < max_cred_num
    /\ \E p \in Procs :
          /\ proc[p].pc = "done" /\ proc[p].result = "revoke_result"
          /\ \E i \in proc[p].failed_crids :
                i <= max_cred_num /\ i > rev_reg_info.curr_id

C14_Classes(id, info) ==
    {c \in {"not in range", "not yet issued", "already revoked", "eligible"} :
        \/ c = "not in range" /\ OutOfRange(id)
        \/ c = "not yet issued" /\ NotYetIssued(id, info)
        \/ c = "already revoked" /\ AlreadyRevoked(id, info)
        \/ c = "eligible" /\ Eligible(id, info)}

C14_ClassifiedAndFailedExact ==
    [][\A p \in Procs :
          /\ (proc[p].pc = "rv_fetch_info" /\ proc'[p] # proc[p])
             => LET ids == proc[p].cred_revoc_ids
                    info == rev_reg_info
                    elig == {id \in ids : /\ 1 <= id
                                          /\ id <= info.curr_id
                                          /\ id \notin info.used_ids}
                IN /\ \A id \in ids :
                         /\ Cardinality(C14_Classes(id, info)) = 1
                         /\ Eligible(id, info) <=> id \in elig
                   /\ proc'[p].rev_crids = elig
                   /\ proc'[p].failed_crids = ids \ elig
                   /\ proc'[p].pc = "done"
                         => /\ proc'[p].result = "revoke_result"
                            /\ RevokeResult(p)'.failed = FailedList(ids \ elig)
          /\ (proc[p].pc = "rv_txn_info" /\ proc'[p].pc = "done")
             => /\ proc'[p].failed_crids = proc[p].failed_crids
                /\ RevokeResult(p)'.failed =
                      FailedList(proc[p].cred_revoc_ids \ proc[p].rev_crids)]_vars

C14_Witness ==
    \E p \in Procs :
        /\ Returned(p)
        /\ proc[p].attempt = 2
        /\ proc[p].cred_revoc_ids = {2}
        /\ RevokeResult(p).failed = <<"2">>

\* ------------------------------------------------- calls made in sequence

\* the callers make their calls one after the other: a caller only moves
\* while no other call is under way.  Requests hold up to SeqMaxBatch ids,
\* negative ones included (the ids are those int(rev_id) yields).
SeqMaxBatch == 2

SeqReqIds == (0 - 1)..(MaxCredNum + 1)

SeqRequests == {S \in SUBSET SeqReqIds : Cardinality(S) <= SeqMaxBatch}

OthersQuiet(p) == \A q \in Procs \ {p} : proc[q].pc \in {"idle", "done"}

SeqRevokeCredentials(p) ==
    /\ proc[p].pc = "idle"
    /\ \E ids \in SeqRequests :
          proc' = [proc EXCEPT ![p] =
                      [Idle EXCEPT !.pc = "rv_loop", !.cred_revoc_ids = ids]]
    /\ UNCHANGED <<store, records, history>>

SeqNext ==
    \E p \in Procs :
        /\ OthersQuiet(p)
        /\ \/ CreateCredential(p)
           \/ CC_FetchInfo(p)
           \/ CC_Allocate(p)
           \/ CC_CreateOk(p)
           \/ SeqRevokeCredentials(p)
           \/ RV_Attempt(p)
           \/ RV_FetchInfo(p)
           \/ RV_TxnFetchList(p)
           \/ RV_Commit(p)
           \/ Return(p)

SpecSeq == Init /\ [][SeqNext]_vars

\* no other caller is inside a call or holds a result
OthersIdle(p) == \A q \in Procs \ {p} : proc[q].pc = "idle"

\* the calls on the registry records, one call at a time
LifecycleNext ==
    \E p \in Procs :
        /\ OthersIdle(p)
        /\ \/ LifecycleInitIssuerRegistry(p)
           \/ IR_Check(p)
           \/ IR_Save(p)
           \/ IR_Notify(p)
           \/ CreateRevRegDef(p)
           \/ RD_Check(p)
           \/ RD_Register(p)
           \/ RD_Store(p)
           \/ RD_Commit(p)
           \/ RD_Save(p)
           \/ CreateRevList(p)
           \/ RL_Check(p)
           \/ RL_Register(p)
           \/ RL_Store(p)
           \/ RL_Save(p)
           \/ HandleFullRegistryOf(p)
           \/ HFR_SetState(p)
           \/ GetOrCreateActiveRegistry(p)
           \/ GA_GetActive(p)
           \/ GA_QueryNonFull(p)
           \/ Return(p)

SpecLifecycle == Init /\ [][LifecycleNext]_vars

\* the registration of schemas, by concurrent callers
RegistrationNext ==
    \/ RegistrarCompletes
    \/ \E p \in Procs :
          \/ CreateAndRegisterSchema(p)
          \/ CS_Register(p)
          \/ CS_Store(p)
          \/ FinishSchema(p)
          \/ FS_Txn(p)
          \/ FS_Commit(p)
          \/ Return(p)

SpecRegistration == Init /\ [][RegistrationNext]_vars

\* concurrent registrations of credential definitions and calls of
\* finish_cred_def
CredDefNext ==
    \E p \in Procs :
        \/ CreateAndRegisterCredDef(p)
        \/ CD_Register(p)
        \/ CD_Store(p)
        \/ FinishCredDef(p)
        \/ FC_CredDef(p)
        \/ FC_Private(p)
        \/ FC_KeyProof(p)
        \/ FC_Commit(p)
        \/ Return(p)

SpecCredDef == Init /\ [][CredDefNext]_vars

\* a registry that issues and revokes, and beside it the record of one more
\* registry, saved by init_issuer_registry and not yet generated
SlowWorkInit ==
    /\ rev_reg_info = FreshInfo
    /\ rev_list_store = {}
    /\ info_lock = {}
    /\ list_lock = {}
    /\ registry_state = "active"
    /\ new_registries = 1
    /\ init_events = 0
    /\ \E a \in LifecycleArgs : rev_reg_records = <<NewRecord(a)>>
    /\ wallet = {}
    /\ txn_open = {}
    /\ registrar = [o \in Objects |-> "none"]
    /\ hfLog = <<>>
    /\ proc = [p \in Procs |-> Idle]
    /\ allocLog = <<>>
    /\ issued = {}
    /\ skipped = {}

\* the calls that do slow work: credential creation, revocation, and the
\* registration of a registry definition and of its first status list
SlowWorkNext ==
    \E p \in Procs :
        /\ OthersIdle(p)
        /\ \/ CreateCredential(p)
           \/ CC_FetchInfo(p)
           \/ CC_Allocate(p)
           \/ CC_CreateOk(p)
           \/ CC_CreateFail(p)
           \/ RevokeCredentials(p)
           \/ RV_Attempt(p)
           \/ RV_FetchInfo(p)
           \/ RV_TxnFetchList(p)
           \/ RV_Commit(p)
           \/ CreateRevRegDef(p)
           \/ RD_Check(p)
           \/ RD_Register(p)
           \/ RD_Store(p)
           \/ RD_Commit(p)
           \/ RD_Save(p)
           \/ CreateRevList(p)
           \/ RL_Check(p)
           \/ RL_Register(p)
           \/ RL_Store(p)
           \/ RL_Save(p)
           \/ Return(p)

SpecSlowWork == SlowWorkInit /\ [][SlowWorkNext]_vars

\* concurrent calls that generate a registry, publish its first status
\* list and mark its definition as finished; the first two work on the copy
\* of the record their caller retrieved
PublishNext ==
    \E p \in Procs :
        \/ CreateRevRegDef(p)
        \/ RD_Check(p)
        \/ RD_Register(p)
        \/ RD_Store(p)
        \/ RD_Commit(p)
        \/ RD_Save(p)
        \/ CreateRevList(p)
        \/ RL_Check(p)
        \/ RL_Register(p)
        \/ RL_Store(p)
        \/ RL_Save(p)
        \/ FinishRevRegDef(p)
        \/ FRD_Txn(p)
        \/ Return(p)

SpecPublish == SlowWorkInit /\ [][PublishNext]_vars

\* a registry that is active: its record carries the identifier, and its
\* definition, index state, private key and first status list are stored
FullRaceInit ==
    /\ rev_reg_info = FreshInfo
    /\ rev_list_store = {}
    /\ info_lock = {}
    /\ list_lock = {}
    /\ registry_state = "active"
    /\ new_registries = 1
    /\ init_events = 0
    /\ \E a \in LifecycleArgs :
          rev_reg_records =
             <<[NewRecord(a) EXCEPT !.state = "active",
                                    !.revoc_reg_id = Some(RevRegObj(1))]>>
    /\ wallet = RevRegEntries(RevRegObj(1)) \cup
                   {[category |-> "rev_list", name |-> FinalName(RevRegObj(1)),
                     state |-> "none", value |-> 0]}
    /\ txn_open = {}
    /\ registrar = [o \in Objects |->
                       IF o = RevRegObj(1) THEN "finished" ELSE "none"]
    /\ hfLog = <<>>
    /\ proc = [p \in Procs |-> Idle]
    /\ allocLog = <<>>
    /\ issued = {}
    /\ skipped = {}

\* concurrent calls of handle_full_registry
FullRaceNext ==
    \E p \in Procs :
        \/ HandleFullRegistryOf(p)
        \/ HFR_SetState(p)
        \/ IR_Check(p)
        \/ IR_Save(p)
        \/ IR_Notify(p)
        \/ Return(p)

SpecFullRace == FullRaceInit /\ [][FullRaceNext]_vars

\* allocation on the registry in use and on a registry that is being
\* registered, one call at a time
AllocationNext ==
    \E p \in Procs :
        /\ OthersIdle(p)
        /\ \/ CreateCredential(p)
           \/ CC_FetchInfo(p)
           \/ CC_Allocate(p)
           \/ CC_CreateOk(p)
           \/ CC_CreateFail(p)
           \/ CreateCredentialOn(p)
           \/ CW_Allocate(p)
           \/ CW_Create(p)
           \/ CreateRevRegDef(p)
           \/ RD_Check(p)
           \/ RD_Register(p)
           \/ RD_Store(p)
           \/ RD_Commit(p)
           \/ RD_Save(p)
           \/ CreateRevList(p)
           \/ RL_Check(p)
           \/ RL_Register(p)
           \/ RL_Store(p)
           \/ RL_Save(p)
           \/ Return(p)

SpecAllocation == SlowWorkInit /\ [][AllocationNext]_vars

C13_AllInvalid(ids, info) ==
    /\ ids # {}
    /\ \A id \in ids : id < 1 \/ id > max_cred_num \/ id > info.curr_id

C13_AllInvalidChangesNothing ==
    [][\A p \in Procs :
          C13_AllInvalid(proc[p].cred_revoc_ids, rev_reg_info)
             => /\ (proc[p].pc = "rv_loop" /\ proc'[p] # proc[p])
                   => /\ proc'[p].pc = "rv_fetch_info"
                      /\ rev_reg_info' = rev_reg_info
                      /\ rev_list_store' = rev_list_store
                /\ (proc[p].pc = "rv_fetch_info" /\ proc'[p] # proc[p])
                   => /\ proc'[p].pc = "done"
                      /\ proc'[p].result = "revoke_result"
                      /\ RevokeResult(p)'.failed =
                            FailedList(proc[p].cred_revoc_ids)
                      /\ RevokeResult(p)'.curr = None
                      /\ ~proc'[p].committed
                      /\ rev_reg_info' = rev_reg_info
                      /\ rev_list_store' = rev_list_store]_vars

C13_Witness ==
    \E p, q \in Procs :
        /\ Returned(p) /\ RevokeResult(p).failed = <<"-1", "0">>
        /\ Returned(q) /\ RevokeResult(q).failed = <<"2", "4">>
        /\ rev_reg_info = [curr_id |-> 1, used_ids |-> {}]
        /\ rev_list_store = {}

\* C17: a batch that mixes invalid indices with eligible ones does not fail
\* as a whole: with no store or library error and no conflict the call
\* returns a result, the eligible indices are added to used_ids and to the
\* status list in a committed write, and exactly the other requested
\* indices are in the failed list.
C17_EligibleOf(ids, info) ==
    {id \in ids : 1 <= id /\ id <= info.curr_id /\ id \notin info.used_ids}

C17_Mixed(ids, info) ==
    C17_EligibleOf(ids, info) \notin {{}, ids}

C16_ResultRecordsReasons ==
    \A p, q \in Procs :
        (Returned(p) /\ Returned(q) /\ RevokeResult(p) = RevokeResult(q))
           => proc[p].logged = proc[q].logged

\* C19: init_issuer_registry called with a max_cred_num outside
\* [MIN_SIZE, MAX_SIZE] fails with the bad-registry-size error, whatever the
\* out-of-bounds value, and then saves no record and sends no init event.
C19_OutOfBounds(opt) ==
    opt # None /\ (opt[1] < MIN_SIZE \/ opt[1] > MAX_SIZE)

C19_BadSizeRejected ==
    \A p \in Procs :
        (/\ proc[p].pc \in {"ir_save", "ir_notify", "done"}
         /\ proc[p].args.revocation
         /\ C19_OutOfBounds(proc[p].args.max_cred_num))
           => proc[p].pc = "done" /\ proc[p].result = "bad_size"

\* C20: init_issuer_registry for a credential definition without a
\* revocation part fails with the revocation-not-supported error in the
\* step that looks at the definition, and the call saves no record and
\* sends no init event: records and events only come from calls whose
\* credential definition supports revocation.
C20_NotSupportedSavesNothing ==
    [][/\ \A p \in Procs :
             (proc[p].pc = "ir_check" /\ proc'[p] # proc[p]
                 /\ ~proc[p].args.revocation)
                => /\ proc'[p].pc = "done"
                   /\ proc'[p].result = "not_supported"
                   /\ new_registries' = new_registries
                   /\ init_events' = init_events
       /\ (new_registries' # new_registries \/ init_events' # init_events)
             => \E p \in Procs :
                   /\ proc'[p] # proc[p]
                   /\ proc[p].args.revocation
                   /\ proc[p].pc \in {"ir_save", "ir_notify"}]_vars

C20_Witness ==
    \E p \in Procs :
        /\ proc[p].pc = "done"
        /\ proc[p].result = "not_supported"
        /\ proc[p].args.max_cred_num = Some(MIN_SIZE)
        /\ new_registries = 0
        /\ init_events = 0

\* ---- C26: the selector returns the oldest active registry of the
\* credential definition: the record a get_active_issuer_rev_reg_record
\* step returns is in state active, belongs to the credential definition
\* asked for, and no active record of that definition was created before it
C26_SelectorReturnsOldestActive ==
    [][\A p \in Procs :
          (/\ proc[p].pc = "ga_active"
           /\ proc'[p].result = "active_registry")
          => LET i == proc'[p].rec_idx
                 cd == proc[p].args.cred_def_id
             IN /\ i \in DOMAIN rev_reg_records
                /\ rev_reg_records[i].state = "active"
                /\ rev_reg_records[i].cred_def_id = cd
                /\ \A j \in DOMAIN rev_reg_records :
                      (/\ rev_reg_records[j].state = "active"
                       /\ rev_reg_records[j].cred_def_id = cd) => i <= j]_vars

\* a call returned a registry while two registries of its credential
\* definition were active and another record was not
C26_Witness ==
    \E p \in Procs :
        /\ proc[p].pc = "done"
        /\ proc[p].result = "active_registry"
        /\ Cardinality(QueryByCredDefId(proc[p].args.cred_def_id,
                                        {"active"})) >= 2
        /\ \E j \in DOMAIN rev_reg_records :
              rev_reg_records[j].state # "active"

\* ---- C27: with no active registry but a record that is not full, the call
\* returns None and creates nothing: a step of the second query that finds
\* such a record ends the call with None and leaves the records as they were
C27_NoneWithoutCreation ==
    [][\A p \in Procs :
          (/\ proc[p].pc = "ga_query"
           /\ proc'[p].pc # "ga_query"
           /\ QueryByCredDefId(proc[p].args.cred_def_id,
                               RecordStates \ {"full"}) # {})
          => /\ proc'[p].result = "none_returned"
             /\ rev_reg_records' = rev_reg_records
             /\ new_registries' = new_registries
             /\ init_events' = init_events]_vars

\* a call returned None while a record of its credential definition was in
\* init or posted, none was active, and a record of it was full
C27_Witness ==
    \E p \in Procs :
        /\ proc[p].pc = "done"
        /\ proc[p].result = "none_returned"
        /\ QueryByCredDefId(proc[p].args.cred_def_id, {"active"}) = {}
        /\ QueryByCredDefId(proc[p].args.cred_def_id, {"init", "posted"}) # {}
        /\ QueryByCredDefId(proc[p].args.cred_def_id, {"full"}) # {}

\* ---- C28: with no record that is not full, the call creates a record in
\* state init for the credential definition and returns None: a step of the
\* second query that finds no such record ends the call with None and with
\* one more record, in init, of that credential definition
C28_CreatesWhenNoneLeft ==
    [][\A p \in Procs :
          (/\ proc[p].pc = "ga_query"
           /\ proc'[p].pc # "ga_query"
           /\ QueryByCredDefId(proc[p].args.cred_def_id,
                               RecordStates \ {"full"}) = {})
          => /\ proc'[p].result = "none_returned"
             /\ Len(rev_reg_records') = Len(rev_reg_records) + 1
             /\ rev_reg_records'[Len(rev_reg_records')].state = "init"
             /\ rev_reg_records'[Len(rev_reg_records')].cred_def_id =
                   proc[p].args.cred_def_id]_vars

\* callers inside handle_full_registry for record i
Handling(i) ==
    {p \in Procs : proc[p].hf = i /\ proc[p].pc \notin {"idle", "done"}}

\* record j was created after record i with i's credential definition,
\* issuer, capacity and registry type
SuccessorOf(i, j) ==
    /\ j > i
    /\ rev_reg_records[j].cred_def_id = rev_reg_records[i].cred_def_id
    /\ rev_reg_records[j].issuer_id = rev_reg_records[i].issuer_id
    /\ rev_reg_records[j].max_cred_num = rev_reg_records[i].max_cred_num
    /\ rev_reg_records[j].revoc_def_type = rev_reg_records[i].revoc_def_type

\* ---- C24: once handle_full_registry has returned or raised, a registry in
\* state full has a successor: whenever a record is full and no caller is
\* inside handle_full_registry for it, a later record with the same
\* credential definition, issuer, capacity and registry type exists
C24_FullHasSuccessor ==
    \A i \in DOMAIN rev_reg_records :
        (rev_reg_records[i].state = "full" /\ Handling(i) = {})
        => \E j \in DOMAIN rev_reg_records : SuccessorOf(i, j)

\* the finished calls of handle_full_registry on record i, as positions of
\* the log
CallsOn(i) == {k \in DOMAIN hfLog : hfLog[k][1] = i}

\* ---- C25: handle_full_registry is idempotent: a call that finds the record
\* full changes no record, and two finished calls on one registry have
\* created exactly one successor between them
C25_TwoCallsOneSuccessor ==
    /\ \A p \in Procs :
          (proc[p].hf # 0 /\ proc[p].result = "returned")
          => proc[p].created = 0
    /\ \A i \in DOMAIN rev_reg_records :
          Cardinality(CallsOn(i)) >= 2
          => Cardinality({k \in CallsOn(i) : hfLog[k][2] # 0}) = 1

\* the categories that hold an entry for the definition of record i, under
\* the final or the job identifier
StoredFor(i) ==
    {e.category : e \in {f \in wallet : f.name.obj = RevRegObj(i)}}

\* ---- C21: the definition, its private key and the fresh index state of a
\* registry are stored together or not at all, and a registry whose
\* generation or registration failed has none of them stored and a record
\* still in state init
C21_StoredOnlyWhenRegistered ==
    \A i \in DOMAIN rev_reg_records :
        /\ StoredFor(i) \cap {"rev_reg_info", "rev_reg_def",
                              "rev_reg_def_private"}
              \in {{}, {"rev_reg_info", "rev_reg_def", "rev_reg_def_private"}}
        /\ registrar[RevRegObj(i)] \in {"none", "failed"}
           => /\ StoredFor(i) = {}
              /\ rev_reg_records[i].state = "init"

\* ---- C22: an entry stored under a final identifier belongs to a
\* registration in state finished; a registration still pending, or failed,
\* is stored under its job identifier at most
C22_FinalIdMeansFinished ==
    \A e \in wallet :
        e.name.kind = "id" => registrar[e.name.obj] = "finished"

\* the moves of a record's state the lifecycle allows
Forward == {<<"init", "posted">>, <<"posted", "active">>, <<"active", "full">>}

\* ---- C29: the state of a record only moves init -> posted -> active ->
\* full: every step leaves the state of every record as it is or moves it
\* one stage forward
C29_StateMovesForward ==
    [][\A i \in DOMAIN rev_reg_records :
          \/ rev_reg_records'[i].state = rev_reg_records[i].state
          \/ <<rev_reg_records[i].state, rev_reg_records'[i].state>>
                \in Forward]_vars

\* no schema has an entry under its job id and one under its registered id
C23_NeverBoth ==
    \A k \in 1..MaxSchemas :
        ~(/\ Entries("schema", JobName(SchemaObj(k))) # {}
          /\ Entries("schema", FinalName(SchemaObj(k))) # {})

SlowWorkPcs ==
    {"cc_create", "rv_fetch_info", "rv_txn_list", "rd_register", "rl_register"}

\* ---- C30: no store transaction is open across slow work: a caller that
\* is creating a credential, computing a status list or waiting for the
\* registrar holds no transaction and none of the locks a transaction takes
C30_NoTransactionAcrossSlowWork ==
    \A p \in Procs :
        proc[p].pc \in SlowWorkPcs
        => p \notin (info_lock \cup list_lock \cup txn_open)

\* a credential is being created after its index was committed, and a
\* registry definition is stored and its record posted
C30_Witness ==
    /\ \E p \in Procs : proc[p].pc = "cc_create" /\ rev_reg_info.curr_id > 0
    /\ rev_list_store # {}
    /\ \E i \in DOMAIN rev_reg_records : rev_reg_records[i].state = "active"

\* ---- C35: curr_id never decreases under any interleaving of allocations
\* and revocations, and a revocation that commits writes the curr_id that
\* was stored immediately before its commit, so it never undoes an
\* allocation committed in the meantime
C35_CurrIdNeverDecreases ==
    [][/\ rev_reg_info'.curr_id >= rev_reg_info.curr_id
       /\ \A p \in Procs :
             (proc[p].pc = "rv_txn_info" /\ proc'[p].committed)
             => rev_reg_info'.curr_id = rev_reg_info.curr_id]_vars

\* a revocation committed after a conflict with an allocation, and a
\* further index was allocated since
C35_Witness ==
    \E p \in Procs :
        /\ proc[p].pc = "done" /\ proc[p].committed
        /\ proc[p].conflicts > 0
        /\ rev_reg_info.used_ids # {}
        /\ rev_reg_info.curr_id >= 2

\* positions inside a revoke_credentials call
RevokePcs == {"rv_loop", "rv_fetch_info", "rv_txn_list", "rv_txn_info"}

\* ---- C39: every revoke_credentials call terminates under any
\* interleaving with other revocations and allocations: its loop is entered
\* at most max_attempt times and the pass that reaches max_attempt raises,
\* and a call that is running eventually returns a result or raises
C39_RevokeTerminates ==
    /\ [](\A p \in Procs :
            /\ proc[p].attempt <= max_attempt
            /\ proc[p].attempt = max_attempt
               => proc[p].pc = "done" /\ proc[p].result = "conflict_error")
    /\ \A p \in Procs :
          (proc[p].pc \in RevokePcs) ~> (proc[p].pc = "done")

\* one call gave up after repeated conflicts while the other writer
\* committed a revocation
C39_Witness ==
    \E p, q \in Procs :
        /\ proc[p].pc = "done" /\ proc[p].result = "conflict_error"
        /\ proc[p].attempt = max_attempt
        /\ proc[q].pc = "done" /\ proc[q].committed

\* the entries of the wallet other than the index entry under a name
C36_OtherEntries(name) ==
    {e \in wallet : ~(e.category = "rev_reg_info" /\ e.name = name)}

\* ---- C36: a successful allocation changes only curr_id of the index
\* state (used_ids, the stored status list, the definition and its private
\* key stay as they are), and an allocation on a registry without a stored
\* status list, index state, definition or private key is refused and
\* changes nothing
C36_AllocationChangesOnlyCurrId ==
    [][\A p \in Procs :
          /\ (proc[p].pc = "cc_txn" /\ proc'[p].pc = "cc_create")
             => /\ rev_reg_info' =
                      [rev_reg_info EXCEPT !.curr_id = proc'[p].rev_reg_index]
                /\ rev_list_store' = rev_list_store
                /\ wallet' = wallet
          /\ (proc[p].pc = "cw_txn" /\ proc'[p].pc = "cw_create")
             => LET name == FinalName(RevRegObj(proc[p].rec_idx)) IN
                /\ \A c \in AllocationCategories : Entries(c, name) # {}
                /\ C36_OtherEntries(name)' = C36_OtherEntries(name)
                /\ Entries("rev_reg_info", name)' =
                      {[e EXCEPT !.value = @ + 1] :
                          e \in Entries("rev_reg_info", name)}
                /\ UNCHANGED store
          /\ (/\ proc[p].pc = "cw_txn"
              /\ \E c \in AllocationCategories :
                    Entries(c, FinalName(RevRegObj(proc[p].rec_idx))) = {})
             => /\ proc'[p].pc = "done"
                /\ proc'[p].result = "issuer_error"
                /\ UNCHANGED <<store, wallet>>]_vars

\* the second index of a registered registry was allocated from a wallet
\* that holds its four entries, after an allocation on the registry in use
C36_Witness ==
    /\ \E p \in Procs :
          /\ proc[p].pc = "cw_create"
          /\ proc[p].rev_reg_index >= 2
          /\ \A c \in AllocationCategories :
                Entries(c, FinalName(RevRegObj(proc[p].rec_idx))) # {}
    /\ rev_reg_info.curr_id > 0

C32_RefusedBeforeAnything ==
    [][\A p \in Procs :
          /\ (/\ proc[p].pc = "rd_check"
              /\ proc[p].rec_copy[1].state # "init"
              /\ proc'[p] # proc[p])
             => /\ proc'[p].pc = "done"
                /\ proc'[p].result = "revocation_error"
                /\ proc'[p].rec_copy = proc[p].rec_copy
                /\ UNCHANGED <<rev_reg_records, wallet, registrar, store>>
          /\ (/\ proc[p].pc = "rl_check"
              /\ proc[p].rec_copy[1].state # "posted"
              /\ proc'[p] # proc[p])
             => /\ proc'[p].pc = "done"
                /\ proc'[p].result = "revocation_error"
                /\ proc'[p].rec_copy = proc[p].rec_copy
                /\ UNCHANGED <<rev_reg_records, wallet, registrar, store>>]_vars

\* positions of a call that has generated the registry of its record, and
\* of a call whose status list the registrar has published
C32_Generated == {"rd_register", "rd_store", "rd_commit", "rd_save"}
C32_Published == {"rl_store", "rl_save"}

\* ---- C32 as stated: the refusal, and in particular no registry is
\* generated more than once and no initial status list published more than
\* once
C32_AtMostOnce ==
    /\ C32_RefusedBeforeAnything
    /\ [](\A p, q \in Procs :
            (p # q /\ proc[p].rec_idx = proc[q].rec_idx)
            => /\ ~(proc[p].pc \in C32_Generated
                    /\ proc[q].pc \in C32_Generated)
               /\ ~(proc[p].pc \in C32_Published
                    /\ proc[q].pc \in C32_Published))

\* a call on a record that is already active was refused while the
\* entries of the registry are stored
C32_Witness ==
    \E p \in Procs :
        /\ proc[p].pc = "done" /\ proc[p].result = "revocation_error"
        /\ proc[p].rec_copy # None
        /\ proc[p].rec_copy[1].state = "active"
        /\ Entries("rev_list", FinalName(RevRegObj(proc[p].rec_idx))) # {}

\* the categories stored under the revoc_reg_id of record i
C38_Stored(i) ==
    {c \in AllocationCategories :
        Entries(c, FinalName(RevRegObj(i))) # {}}

\* ---- C38: in every reachable state a record in state posted, active or
\* full has an index state, a definition and a private key stored under
\* its revoc_reg_id, and a record in state active or full has a stored
\* status list as well (so a state is only reached after its entries were
\* committed)
C38_RecordsHaveEntries ==
    \A i \in DOMAIN rev_reg_records :
        /\ rev_reg_records[i].state \in {"posted", "active", "full"}
           => /\ rev_reg_records[i].revoc_reg_id = Some(RevRegObj(i))
              /\ {"rev_reg_info", "rev_reg_def", "rev_reg_def_private"}
                    \subseteq C38_Stored(i)
        /\ rev_reg_records[i].state \in {"active", "full"}
           => "rev_list" \in C38_Stored(i)

\* ---- C33: once finish_revocation_registry_definition has ended for a
\* registry whose definition is stored, the stored definition entry has
\* the state tag finished (with its value as before, and no entry of
\* another category changed)
C33_FinishSetsStateTag ==
    \A p \in Procs :
        (/\ proc[p].pc = "done"
         /\ proc[p].result \in {"returned", "issuer_error"}
         /\ proc[p].rec_idx # 0
         /\ proc[p].rec_copy = None)
        => \A e \in Entries("rev_reg_def",
                             FinalName(RevRegObj(proc[p].rec_idx))) :
              e.state = "finished"

\* the categories that hold an entry under a name
C34_Keyed(name) == {c \in CredDefCategories : Entries(c, name) # {}}

\* ---- C34: finish_cred_def re-keys the credential definition, its
\* private key and its key proof in one transaction: in every committed
\* state the three categories are keyed alike (all three or none under the
\* job id, all three or none under the credential definition id); a call
\* that commits moves all three, with their values, and a call that
\* fails changes nothing
C34_FinishCredDefAllOrNothing ==
    /\ [](\A k \in 1..MaxCredDefs :
            /\ C34_Keyed(JobName(CredDefObj(k))) \in {{}, CredDefCategories}
            /\ C34_Keyed(FinalName(CredDefObj(k)))
                  \in {{}, CredDefCategories})
    /\ [][\A p \in Procs :
            LET o == CredDefObj(proc[p].obj) IN
            /\ (proc[p].pc = "fc_commit" /\ proc'[p].pc = "done")
               => /\ C34_Keyed(JobName(o))' = {}
                  /\ C34_Keyed(FinalName(o))' = CredDefCategories
                  /\ \A c \in CredDefCategories :
                        {e.value : e \in Entries(c, FinalName(o))'} =
                        {e.value : e \in Entries(c, JobName(o))}
            /\ (/\ proc[p].pc \in {"fc_cred_def", "fc_private",
                                    "fc_key_proof"}
                /\ proc'[p].pc = "done")
               => /\ proc'[p].result \in {"issuer_error", "askar_error"}
                  /\ wallet' = wallet]_vars

\* one call has re-keyed the three entries of a credential definition and
\* a later call for the same job id has failed
C34_Witness ==
    \E p, q \in Procs :
        /\ proc[p].pc = "done" /\ proc[p].result = "finished"
        /\ proc[q].pc = "done" /\ proc[q].result = "issuer_error"
        /\ proc[q].obj = proc[p].obj /\ proc[q].reg = None
        /\ C34_Keyed(FinalName(CredDefObj(proc[p].obj))) = CredDefCategories
        /\ C34_Keyed(JobName(CredDefObj(proc[p].obj))) = {}

\* ---- C37: concurrent calls of handle_full_registry on one registry are
\* serialized by the fetch for update: the state is set to full by one
\* call only, and once calls on a registry have ended and none is under
\* way, the registry is full and exactly one successor record exists
C37_OneTransitionOneSuccessor ==
    /\ [][/\ \A p \in Procs :
              (proc[p].pc = "hfr_txn" /\ proc'[p].pc = "ir_check")
              => /\ rev_reg_records[proc[p].hf].state # "full"
                 /\ rev_reg_records'[proc[p].hf].state = "full"
         /\ \A i \in DOMAIN rev_reg_records :
              rev_reg_records[i].state = "full"
              => rev_reg_records'[i].state = "full"]_vars
    /\ [](\A i \in DOMAIN rev_reg_records :
            (CallsOn(i) # {} /\ Handling(i) = {}
             /\ \A p \in Procs : proc[p].hf # i)
            => /\ rev_reg_records[i].state = "full"
               /\ Cardinality({j \in DOMAIN rev_reg_records :
                                  SuccessorOf(i, j)}) = 1)

====
